---- MODULE Spec2Model ----
(***************************************************************************)
(* A state-machine model of the CBDC simulation engine of                  *)
(* src/cbdc_simulation.py: the orchestration loop CBDCSimulation.run, the  *)
(* macro core EconomicModel (schedules, equilibrium solve with fallback,   *)
(* derivation of dependent variables) and the three sector modules         *)
(* CBDCSystem, BankingSystem and TradeSystem.                              *)
(*                                                                         *)
(* Numbers.  The program computes in floating point; the model computes in *)
(* fixed point over the integers, with floor division where the program    *)
(* divides:                                                                *)
(*   - money amounts (gdp, loans, deposits, ...) are whole units;          *)
(*   - percentages (interest, policy, unemployment, inflation rates, the   *)
(*     CBDC rate, natural unemployment, ...) are tenths of a percentage    *)
(*     point: 2.5 is 25;                                                   *)
(*   - fractions, coefficients and index levels (tariff rate, Okun         *)
(*     coefficient, price level, exchange rate, ...) are per mille:        *)
(*     0.05 is 50 and 1.0 is 1000.                                         *)
(*                                                                         *)
(* scipy.optimize.fsolve is a library call.  It either raises, or returns  *)
(* a 4-vector together with a convergence flag that the program does not   *)
(* ask for; the model draws its outcome from a small set.  A named record  *)
(* field is a dataclass attribute (hasattr), a key of the extension        *)
(* mapping is a key of additional_variables.                               *)
(***************************************************************************)
EXTENDS Integers, Sequences, FiniteSets, TLC

\* ------------------------------------------------------------------ bounds
MaxHorizon == 3

MaxSaveFreq == 2

\* ------------------------------------------------------- program constants
\* the fallback growth step of _solve_equilibrium, 0.005, per mille
FallbackGrowth == 5

\* the quarters of a year: potential_output_growth / 4
QuartersPerYear == 4

\* the number of trading partners of _initialize_trade_network
NPartners == 5

\* the number of commercial banks of _initialize_banking_network
NBanks == 6

\* ------------------------------------------------------------------ helpers
Max(a, b) == IF a >= b THEN a ELSE b

Abs(a) == IF a >= 0 THEN a ELSE -a

\* x * f for a per-mille factor f
Scale(x, f) == (x * f) \div 1000

\* the clamp left out
NoLowerBound(x) == x

\* max(0, x): the clamp of unemployment_rate and of policy_rate
ZeroLowerBound(x) == Max(0, x)

\* ------------------------------------------------------------- data model
\* EconomicState as built by create_default_config; fields the constructor
\* is not given keep the dataclass defaults.
DefaultState ==
  [ gdp |-> 20000, potential_gdp |-> 20000, inflation_rate |-> 20,
    unemployment_rate |-> 40, interest_rate |-> 25, policy_rate |-> 25,
    exchange_rate |-> 1000,
    government_spending |-> 4000, tax_revenue |-> 3500,
    government_debt |-> 20000, budget_deficit |-> 0,
    money_supply |-> 3500, cbdc_supply |-> 0, bank_reserves |-> 200,
    consumption |-> 0, investment |-> 0, net_exports |-> 0,
    exports |-> 0, imports |-> 0, current_account |-> 0,
    capital_account |-> 0, foreign_reserves |-> 0,
    bank_loans |-> 15000, bank_deposits |-> 18000, interbank_rate |-> 0,
    loan_interest_rate |-> 0, deposit_interest_rate |-> 0,
    price_level |-> 1000,
    inflation_expectations |-> 20, growth_expectations |-> 2500,
    financial_stress_index |-> 0 ]

DefaultMacro ==
  [ autonomous_consumption |-> 1500, marginal_propensity_to_consume |-> 600,
    autonomous_investment |-> 2000, investment_interest_sensitivity |-> 100,
    phillips_curve_sensitivity |-> 500, okun_law_coefficient |-> 500,
    taylor_rule_inflation |-> 1500, taylor_rule_output |-> 500,
    natural_unemployment |-> 40, potential_output_growth |-> 25,
    neutral_interest_rate |-> 25, adaptive_expectations_weight |-> 700 ]

DefaultCBDC ==
  [ cbdc_interest_rate |-> 0, tier1 |-> 0,
    programmable_money_validity |-> 365,
    conditional_spending_constraints |-> 0,
    automatic_fiscal_transfers |-> 0, smart_contract_based_lending |-> 0,
    emergency_override_mechanisms |-> 0,
    inflation_indexed_instruments |-> 0,
    programmable_asset_purchases |-> 0 ]

DefaultTrade ==
  [ tariff_rate |-> 50, exchange_rate_regime |-> "floating",
    exchange_rate_target |-> 1000, intervention_threshold |-> 100,
    capital_flow_controls |-> 0, cbdc_trade_settlement |-> 0,
    cross_border_cbdc_limits |-> 0 ]

DefaultBanking ==
  [ capital_requirement |-> 80, reserve_requirement |-> 20,
    liquidity_coverage_ratio |-> 1000, lending_risk_appetite |-> 500,
    quantitative_easing |-> 0, cbdc_disintermediation_factor |-> 200,
    bank_cbdc_distribution_role |-> 1000 ]

\* EconomicState.as_dict: the fixed fields, then update() with the extension
\* mapping, whose keys take precedence.
as_dict(st, av) == av @@ st

\* ------------------------------------------------- the random generator
\* numpy's global generator, abstracted to a 16-state linear congruential
\* generator: what matters is that seeding fixes its state and that every
\* draw advances it.
\* a seed that is not applied: the generator keeps the state it had
np_random_unseeded(seed, generator) == generator

\* np.random.seed(config.random_seed)
np_random_seed(seed, generator) == seed % 16

rng_next(g) == (5 * g + 3) % 16

RECURSIVE rng_at(_, _)
rng_at(g, k) == IF k = 0 THEN g ELSE rng_next(rng_at(g, k - 1))

\* np.random.uniform(lo, hi), per mille, read off generator state g
uniform(lo, hi, g) == lo + ((hi - lo) * g) \div 16

\* TradeSystem._initialize_trade_network: per partner, in this order, a GDP
\* draw, an export-flow draw and an import-flow draw, each times home GDP.
\* prev_gdp stands for the node attribute read with .get("prev_gdp", gdp).
initialize_trade_network(st, g) ==
  LET d(i, j) == rng_at(g, 3 * (i - 1) + j)
      pg == [i \in 1..NPartners |-> Scale(st.gdp, uniform(500, 2000, d(i, 1)))]
  IN [ home_gdp |-> st.gdp,
       partner_gdp |-> pg,
       prev_gdp |-> pg,
       export |-> [i \in 1..NPartners |->
                     Scale(st.gdp, uniform(50, 150, d(i, 2)))],
       import |-> [i \in 1..NPartners |->
                     Scale(st.gdp, uniform(50, 150, d(i, 3)))] ]

\* BankingSystem._initialize_banking_network draws one interbank exposure
\* for every pair of a new bank and a bank added before it; the network is
\* never read again, so only the number of draws is kept.
banking_network_draws == (NBanks * (NBanks - 1)) \div 2

\* BankingSystem._initialize_balance_sheets: fixed shares of 2.0 x GDP
initialize_balance_sheets_state(st) ==
  LET total == Scale(st.gdp, 2000)
  IN [st EXCEPT !.bank_loans = Scale(total, 600),
                !.bank_deposits = Scale(total, 700),
                !.bank_reserves = Scale(total, 100)]

initialize_balance_sheets_ext(st, av) ==
  LET total == Scale(st.gdp, 2000)
  IN [ bank_securities |-> Scale(total, 200),
       bank_other_assets |-> Scale(total, 100),
       bank_borrowings |-> Scale(total, 200),
       bank_equity |-> Scale(total, 100) ] @@ av

\* ---------------------------------------------------- configurations
\* Periods a schedule may be keyed by.
ScheduleKeys == {0, 1}

NoSchedule == <<>>

\* Shock dictionaries (name -> delta): the shocks of the scenario builders
\* of cbdc_simulation.py, and single-name shocks to a state field, to
\* parameters of several sets and to a name nothing carries.
ShockMenu ==
  { [gdp |-> -1000, inflation_rate |-> 15, unemployment_rate |-> 20],
    [bank_loans |-> -2000, bank_deposits |-> -1500,
     financial_stress_index |-> 300, loan_interest_rate |-> 20],
    [potential_gdp |-> 500],
    [potential_output_growth |-> 10],
    [tariff_rate |-> 50],
    [capital_requirement |-> 40, unknown_variable |-> 7] }

\* Policy-change dictionaries (name -> value), after the scenario builders.
PolicyMenu ==
  { [cbdc_interest_rate |-> 5, cbdc_supply |-> 500],
    [tariff_rate |-> 150],
    [potential_output_growth |-> 40],
    [emergency_override_mechanisms |-> 20, policy_rate |-> -10,
     cbdc_interest_rate |-> 10, smart_contract_based_lending |-> 800,
     quantitative_easing |-> 50] }

\* The two schedules of a configuration: shocks only, policy changes only,
\* or a shock and a policy change addressing one name in one period.
Scenarios ==
  { [shocks |-> NoSchedule, policy_changes |-> NoSchedule] }
  \cup { [shocks |-> (k :> d), policy_changes |-> NoSchedule] :
           k \in ScheduleKeys, d \in ShockMenu }
  \cup { [shocks |-> NoSchedule, policy_changes |-> (k :> d)] :
           k \in ScheduleKeys, d \in PolicyMenu }
  \cup { [shocks |-> (k :> [tariff_rate |-> 50]),
          policy_changes |-> (k :> [tariff_rate |-> 150])] :
           k \in ScheduleKeys }

\* additional_variables of the configured initial state: empty, or holding
\* a key that is also the name of a trade parameter.
InitialExtensions == { <<>>, [tariff_rate |-> 7] }

Configs ==
  { [ time_horizon |-> h, save_frequency |-> n, random_seed |-> 42,
      initial_state |-> DefaultState,
      additional_variables |-> av,
      macro_parameters |-> DefaultMacro,
      cbdc_parameters |-> [DefaultCBDC EXCEPT !.cbdc_interest_rate = cr],
      trade_parameters |-> DefaultTrade,
      banking_parameters |-> DefaultBanking,
      shocks |-> sc.shocks, policy_changes |-> sc.policy_changes ] :
    h \in 1..MaxHorizon, n \in 1..MaxSaveFreq, cr \in {0, 30},
    av \in InitialExtensions, sc \in Scenarios }

\* ------------------------------------------------------------------ state
VARIABLES
  config,          \* the SimulationConfig values as configured
  current_state,   \* the one live EconomicState (fixed fields)
  additional_variables,  \* its extension mapping
  macro_params,
  cbdc_params,
  trade_params,
  banking_params,
  history,         \* EconomicModel.history
  results,         \* CBDCSimulation.results
  trade_network,
  generator,       \* state of the global random generator
  pc,              \* position in __init__ / run
  t,               \* loop variable of run
  fsolve_info,     \* what the last fsolve call did
  fsolve_log,      \* the calls of fsolve so far: << arguments, outcome >>
  simulation_no,   \* 1 for the first simulation object, 2 for a second one
  previous_results, \* the output series of the first simulation
  simulation_class,  \* the class of the simulation object
  logs,              \* the list the caller hands to the enhanced simulation
  calculation_logs   \* EnhancedCBDCSimulation.calculation_logs

vars ==
  << config, current_state, additional_variables, macro_params, cbdc_params,
     trade_params, banking_params, history, results, trade_network,
     generator, pc, t, fsolve_info, fsolve_log, simulation_no,
     previous_results, simulation_class, logs, calculation_logs >>

EmptyNetwork ==
  [ home_gdp |-> 0, partner_gdp |-> <<>>, prev_gdp |-> <<>>,
    export |-> <<>>, import |-> <<>> ]

\* A configuration has been built; no simulation object exists yet.  The
\* global generator is in whatever state the process left it.
\* a list of log entries nobody has written to
NoLogs == [ is_callers |-> FALSE, list |-> << >> ]

\* EnhancedCBDCSimulation.__init__: self.calculation_logs =
\* calculation_logs or [], the argument itself only when it is truthy
adopt_logs(argument) ==
  IF argument # << >> THEN [ is_callers |-> TRUE, list |-> argument ]
  ELSE NoLogs

\* _log_calculation appends one entry per call; an entry is its title
log_calculation(attribute, titles) ==
  [attribute EXCEPT !.list = @ \o titles]

\* what the caller's list holds once the attribute's list holds its entries
callers_list(attribute, list) ==
  IF attribute.is_callers THEN attribute.list ELSE list

\* CBDCSimulation.__init__ builds an EconomicModel whatever the class of
\* the simulation, and run() calls step() on that object.
economic_model_class(class) == "EconomicModel"

\* the logging overrides of _solve_equilibrium, _equilibrium_equations and
\* _update_state_variables are methods of EnhancedCBDCSimulation
has_logging_overrides(class) == class = "EnhancedCBDCSimulation"

SolveTitles ==
  << "Starting equilibrium calculation", "IS-LM-BP Equations",
     "Equilibrium solution" >>

UpdateTitles == << "Before state update", "After state update" >>

\* the entries a step of the economic model writes
Logged(titles) ==
  IF has_logging_overrides(economic_model_class(simulation_class))
    THEN /\ calculation_logs' = log_calculation(calculation_logs, titles)
         /\ logs' = callers_list(calculation_logs', logs)
    ELSE UNCHANGED << logs, calculation_logs >>

InitFrom(configs) ==
  /\ config \in configs
  /\ simulation_class = "CBDCSimulation"
  /\ logs = << >>
  /\ calculation_logs = NoLogs
  /\ current_state = config.initial_state
  /\ additional_variables = config.additional_variables
  /\ macro_params = config.macro_parameters
  /\ cbdc_params = config.cbdc_parameters
  /\ trade_params = config.trade_parameters
  /\ banking_params = config.banking_parameters
  /\ history = <<>>
  /\ results = <<>>
  /\ trade_network = EmptyNetwork
  /\ generator \in {0, 11}
  /\ pc = "construct"
  /\ t = 0
  /\ fsolve_info = "none"
  /\ fsolve_log = {}
  /\ simulation_no = 1
  /\ previous_results = <<>>

Init == InitFrom(Configs)

\* the banking update taken before the CBDC update
RunOrderBankingFirst ==
  << "banking", "cbdc", "trade", "shocks", "policy", "solve", "derive",
     "save_state", "store" >>

\* the shocks of a period applied after the derivation
RunOrderShocksAfterDerive ==
  << "cbdc", "banking", "trade", "policy", "solve", "derive", "shocks",
     "save_state", "store" >>

\* The steps of one period, in the order run() and step() take them:
\* the three sector updates, then step(): shocks, policy changes, solve,
\* derivation, save_state; then the append to the result list.
RunOrder ==
  << "cbdc", "banking", "trade", "shocks", "policy", "solve", "derive",
     "save_state", "store" >>

\* the step after step p of a period
after(p) ==
  LET i == CHOOSE k \in 1..Len(RunOrder) : RunOrder[k] = p
  IN RunOrder[i + 1]

\* a history that starts empty
initial_history_empty(st, av) == << >>

\* EconomicModel.__init__: the history starts with the initial state.
initial_history(st, av) == << as_dict(st, av) >>

\* CBDCSimulation.__init__: seed, then EconomicModel (first history entry),
\* CBDCSystem, TradeSystem (trade network), BankingSystem (banking network,
\* balance sheets), then an empty result list.
Construct ==
  /\ pc = "construct"
  /\ LET g0 == np_random_seed(config.random_seed, generator)
     IN /\ history' = initial_history(current_state, additional_variables)
        /\ trade_network' = initialize_trade_network(current_state, g0)
        /\ generator' = rng_at(g0, 3 * NPartners + banking_network_draws)
  /\ current_state' = initialize_balance_sheets_state(current_state)
  /\ additional_variables' =
       initialize_balance_sheets_ext(current_state, additional_variables)
  /\ results' = <<>>
  /\ t' = 0
  /\ pc' = IF config.time_horizon > 0 THEN RunOrder[1] ELSE "done"
  /\ calculation_logs' =
       IF simulation_class = "EnhancedCBDCSimulation" THEN adopt_logs(logs)
       ELSE calculation_logs
  /\ UNCHANGED << config, simulation_class,
                  logs,
                  macro_params, cbdc_params, trade_params,
                  banking_params, fsolve_info, fsolve_log, simulation_no,
                  previous_results >>

\* ------------------------------------------------------------ CBDC system
\* The sector operators take and return w = [st |-> fixed fields,
\* av |-> extension mapping], the live state they mutate in place.
Put(av, key, value) == (key :> value) @@ av

Get(av, key, default) == IF key \in DOMAIN av THEN av[key] ELSE default

\* the validity floored at one day instead of thirty
apply_validity_periods_one_day_floor(w, cp) ==
  LET validity_days == cp.programmable_money_validity
      velocity_multiplier == (365 * 1000) \div Max(1, validity_days)
      effective_increase == (velocity_multiplier - 1000) \div 10
  IN [w EXCEPT !.av = Put(w.av, "money_velocity",
                          IF validity_days < 365
                            THEN 1000 + effective_increase ELSE 1000)]

\* CBDCSystem._apply_validity_periods: money_velocity, per mille
apply_validity_periods(w, cp) ==
  LET validity_days == cp.programmable_money_validity
      velocity_multiplier == (365 * 1000) \div Max(30, validity_days)
      effective_increase == (velocity_multiplier - 1000) \div 10
  IN [w EXCEPT !.av = Put(w.av, "money_velocity",
                          IF validity_days < 365
                            THEN 1000 + effective_increase ELSE 1000)]

\* CBDCSystem._apply_conditional_spending
apply_conditional_spending(w, cp) ==
  LET total_consumption == w.st.consumption
      constrained_consumption ==
        Scale(total_consumption, cp.conditional_spending_constraints)
  IN [w EXCEPT !.av =
        Put(Put(w.av, "constrained_consumption", constrained_consumption),
            "unconstrained_consumption",
            total_consumption - constrained_consumption)]

\* CBDCSystem._apply_tiered_interest
apply_tiered_interest(w, cp) ==
  [w EXCEPT !.av = Put(w.av, "effective_cbdc_rate",
                       cp.cbdc_interest_rate + cp.tier1 \div 2)]

\* transfers that are recorded but never reach government spending
apply_automatic_transfers_recorded_only(w, cp) ==
  [w EXCEPT !.av = Put(w.av, "fiscal_transfers",
                       cp.automatic_fiscal_transfers)]

\* CBDCSystem._apply_automatic_transfers
apply_automatic_transfers(w, cp) ==
  LET transfer_amount == cp.automatic_fiscal_transfers
  IN [w EXCEPT !.st.government_spending = @ + transfer_amount,
               !.av = Put(w.av, "fiscal_transfers", transfer_amount)]

\* CBDCSystem._execute_smart_contracts: the lending boost, in thousandths of
\* a unit, written only while the lending parameter is positive
execute_smart_contracts(w, cp, mp) ==
  LET unemployment == w.st.unemployment_rate
      natural_rate == mp.natural_unemployment
  IN IF cp.smart_contract_based_lending > 0
       THEN [w EXCEPT !.av = Put(w.av, "smart_contract_lending",
               IF unemployment > natural_rate
                 THEN (unemployment - natural_rate)
                        * cp.smart_contract_based_lending
                 ELSE 0)]
       ELSE w

\* CBDCSystem.update
cbdc_update(w, cp, mp) ==
  execute_smart_contracts(
    apply_automatic_transfers(
      apply_tiered_interest(
        apply_conditional_spending(
          apply_validity_periods(w, cp), cp), cp), cp), cp, mp)

\* --------------------------------------------------------- banking system
total_assets(w) ==
  w.st.bank_loans + w.st.bank_reserves
    + w.av["bank_securities"] + w.av["bank_other_assets"]

\* BankingSystem._update_balance_sheets
update_balance_sheets(w, bp, cp) ==
  LET st == w.st
      av == w.av
      gdp_growth == (st.gdp * 1000) \div Get(av, "prev_gdp", st.gdp) - 1000
      interest_effect ==
        -20 * (st.loan_interest_rate
                 - Get(av, "prev_loan_rate", st.loan_interest_rate))
      loan_growth ==
        Scale(gdp_growth \div 2 + interest_effect + 5,
              bp.lending_risk_appetite)
      bank_loans == Scale(st.bank_loans, 1000 + loan_growth)
      cbdc_effect ==
        -10 * Max(0, cp.cbdc_interest_rate - st.deposit_interest_rate)
      deposit_growth ==
        (3 * gdp_growth) \div 10 + 10 * (st.deposit_interest_rate - 10) + 4
          + cbdc_effect
      bank_deposits == Scale(st.bank_deposits, 1000 + deposit_growth)
      required_reserves == Scale(bank_deposits, bp.reserve_requirement)
      reserve_adjustment ==
        -20 * (st.interest_rate - st.deposit_interest_rate)
      excess_reserves ==
        Scale(Max(0, st.bank_reserves - required_reserves),
              1000 + reserve_adjustment)
      bank_reserves == required_reserves + excess_reserves
      securities_growth ==
        gdp_growth \div 5
          + 30 * (st.interest_rate
                    - Get(av, "prev_interest_rate", st.interest_rate))
      bank_securities == Scale(av["bank_securities"], 1000 + securities_growth)
      assets == bank_loans + bank_reserves + bank_securities
                  + av["bank_other_assets"]
      total_liabilities_ex_borrowings == bank_deposits + av["bank_equity"]
  IN [ st |-> [st EXCEPT !.bank_loans = bank_loans,
                         !.bank_deposits = bank_deposits,
                         !.bank_reserves = bank_reserves],
       av |-> [ bank_securities |-> bank_securities,
                bank_borrowings |-> assets - total_liabilities_ex_borrowings,
                prev_loan_rate |-> st.loan_interest_rate,
                prev_interest_rate |-> st.interest_rate ] @@ av ]

\* BankingSystem._apply_regulations.  (requirement - ratio) * base is
\* evaluated as requirement * base - numerator, which is the same number
\* without the rounding of the ratio.
apply_regulations(w, bp) ==
  LET assets == total_assets(w)
      equity == w.av["bank_equity"]
      capital_ratio == (equity * 1000) \div assets
      capital_requirement == bp.capital_requirement
      capital_shortfall ==
        Max(0, (capital_requirement * assets - 1000 * equity) \div 1000)
      reduction_needed ==
        (capital_shortfall * 1000) \div (1000 - capital_requirement)
      w1 == IF capital_shortfall > 0
              THEN [w EXCEPT
                      !.st.bank_loans = @ - Scale(reduction_needed, 800),
                      !.av = Put(w.av, "bank_securities",
                                 w.av["bank_securities"]
                                   - Scale(reduction_needed, 200))]
              ELSE w
      liquid_assets ==
        w1.st.bank_reserves + Scale(w1.av["bank_securities"], 800)
      short_term_liabilities ==
        Scale(w1.st.bank_deposits, 300) + Scale(w1.av["bank_borrowings"], 500)
      liquidity_ratio == (liquid_assets * 1000) \div short_term_liabilities
      liquidity_shortfall ==
        Max(0, (bp.liquidity_coverage_ratio * short_term_liabilities
                  - 1000 * liquid_assets) \div 1000)
      w2 == IF liquidity_shortfall > 0
              THEN [w1 EXCEPT
                      !.st.bank_loans = @ - Scale(liquidity_shortfall, 500),
                      !.st.bank_reserves = @ + Scale(liquidity_shortfall, 300),
                      !.av = Put(w1.av, "bank_securities",
                                 w1.av["bank_securities"]
                                   + Scale(liquidity_shortfall, 200))]
              ELSE w1
  IN [w2 EXCEPT !.av = Put(Put(w2.av, "capital_ratio", capital_ratio),
                           "liquidity_ratio", liquidity_ratio)]

\* BankingSystem._central_bank_operations
central_bank_operations(w, bp, cp) ==
  LET qe_amount == Scale(w.st.gdp, bp.quantitative_easing) \div 100
      w1 == IF bp.quantitative_easing # 0
              THEN [w EXCEPT
                      !.st.bank_reserves = @ + qe_amount,
                      !.av = Put(Put(w.av, "bank_securities",
                                     w.av["bank_securities"] - qe_amount),
                                 "central_bank_securities",
                                 Get(w.av, "central_bank_securities", 0)
                                   + qe_amount)]
              ELSE w
      cbdc_issuance == cp.programmable_asset_purchases
  IN IF cbdc_issuance > 0
       THEN [w1 EXCEPT
               !.st.cbdc_supply = @ + cbdc_issuance,
               !.av = Put(w1.av, "central_bank_assets",
                          Get(w1.av, "central_bank_assets", 0)
                            + cbdc_issuance)]
       ELSE w1

\* BankingSystem._calculate_stability_indicators
calculate_stability_indicators(w) ==
  LET assets == total_assets(w)
      equity == w.av["bank_equity"]
      leverage == (assets * 1000) \div equity
      credit_growth ==
        IF "prev_bank_loans" \in DOMAIN w.av
          THEN (w.st.bank_loans * 1000) \div w.av["prev_bank_loans"] - 1000
          ELSE 10
      stable_funding ==
        Scale(w.st.bank_deposits, 700) + Scale(w.av["bank_borrowings"], 300)
          + equity
      funding_stability == (stable_funding * 1000) \div assets
      stability_index ==
        ( 300 * ((equity * 1000) \div assets)
          + 300 * (1000 - 20 * Abs(credit_growth - 20))
          + 400 * funding_stability ) \div 1000
  IN [ st |-> [w.st EXCEPT !.financial_stress_index = 1000 - stability_index],
       av |-> [ banking_leverage |-> leverage,
                credit_growth |-> credit_growth,
                funding_stability |-> funding_stability,
                prev_bank_loans |-> w.st.bank_loans ] @@ w.av ]

\* deposits leave the banks without arriving in the CBDC supply
apply_cbdc_banking_effects_drain(w, bp, cp) ==
  LET cbdc_rate == cp.cbdc_interest_rate
      deposit_rate == w.st.deposit_interest_rate
      disintermediation ==
        ((cbdc_rate - deposit_rate) * bp.cbdc_disintermediation_factor)
          \div 10
      deposit_reduction == Scale(w.st.bank_deposits, disintermediation)
  IN IF cbdc_rate > deposit_rate
       THEN [w EXCEPT
               !.st.bank_deposits = @ - deposit_reduction,
               !.av = Put(w.av, "cbdc_disintermediation", deposit_reduction)]
       ELSE [w EXCEPT !.av = Put(w.av, "cbdc_disintermediation", 0)]

\* BankingSystem._apply_cbdc_banking_effects
apply_cbdc_banking_effects(w, bp, cp) ==
  LET cbdc_rate == cp.cbdc_interest_rate
      deposit_rate == w.st.deposit_interest_rate
      disintermediation ==
        ((cbdc_rate - deposit_rate) * bp.cbdc_disintermediation_factor)
          \div 10
      deposit_reduction == Scale(w.st.bank_deposits, disintermediation)
      w1 == IF cbdc_rate > deposit_rate
              THEN [w EXCEPT
                      !.st.bank_deposits = @ - deposit_reduction,
                      !.st.cbdc_supply = @ + deposit_reduction,
                      !.av = Put(w.av, "cbdc_disintermediation",
                                 deposit_reduction)]
              ELSE [w EXCEPT !.av = Put(w.av, "cbdc_disintermediation", 0)]
      fee_income ==
        Scale(w1.st.cbdc_supply, bp.bank_cbdc_distribution_role) \div 1000
  IN IF bp.bank_cbdc_distribution_role > 0
       THEN [w1 EXCEPT
               !.av = Put(Put(w1.av, "bank_equity",
                              w1.av["bank_equity"] + fee_income),
                          "cbdc_fee_income", fee_income)]
       ELSE w1

\* BankingSystem.update
banking_update(w, bp, cp) ==
  apply_cbdc_banking_effects(
    calculate_stability_indicators(
      central_bank_operations(
        apply_regulations(
          update_balance_sheets(w, bp, cp), bp), bp, cp)), bp, cp)

\* ----------------------------------------------------------- trade system
\* The trade operators take and return x = [st, av, net], net the trade
\* network.
RECURSIVE SumSeq(_)
SumSeq(q) == IF q = <<>> THEN 0 ELSE Head(q) + SumSeq(Tail(q))

\* TradeSystem._update_trade_flows
update_trade_flows(x, tp) ==
  LET home_gdp == x.st.gdp
      exchange_rate == x.st.exchange_rate
      prev_exchange_rate == Get(x.av, "prev_exchange_rate", 1000)
      prev_home_gdp == Get(x.av, "prev_gdp", home_gdp)
      foreign_growth(i) ==
        1000 + Scale((x.net.partner_gdp[i] * 1000) \div x.net.prev_gdp[i]
                       - 1000, 800)
      export_rate_effect ==
        1000 + (1000 - (exchange_rate * 1000) \div prev_exchange_rate) \div 2
      domestic_growth ==
        1000 + Scale((home_gdp * 1000) \div prev_home_gdp - 1000, 800)
      import_rate_effect ==
        1000 + ((exchange_rate * 1000) \div prev_exchange_rate - 1000) \div 2
      tariff_effect == 1000 - tp.tariff_rate \div 2
      export == [i \in 1..NPartners |->
                   Scale(Scale(x.net.export[i], foreign_growth(i)),
                         export_rate_effect)]
      import == [i \in 1..NPartners |->
                   Scale(Scale(Scale(x.net.import[i], domestic_growth),
                               import_rate_effect), tariff_effect)]
      total_exports == SumSeq(export)
      total_imports == SumSeq(import)
  IN [ st |-> [x.st EXCEPT !.exports = total_exports,
                           !.imports = total_imports,
                           !.net_exports = total_exports - total_imports],
       av |-> [ prev_gdp |-> home_gdp,
                prev_exchange_rate |-> exchange_rate ] @@ x.av,
       net |-> [x.net EXCEPT !.home_gdp = home_gdp,
                             !.prev_gdp = x.net.partner_gdp,
                             !.export = export,
                             !.import = import] ]

\* TradeSystem._apply_tariffs
apply_tariffs(x, tp) ==
  LET tariff_rate == tp.tariff_rate
      tariff_revenue == Scale(x.st.imports, tariff_rate)
  IN [x EXCEPT !.st.tax_revenue = @ + tariff_revenue,
               !.av = [ tariff_revenue |-> tariff_revenue,
                        effective_tariff_rate |-> tariff_rate ] @@ x.av]

\* the market-implied rate of the managed and floating regimes
market_rate(st) ==
  LET interest_differential == st.interest_rate - 20
      trade_balance == (st.net_exports * 1000) \div st.gdp
  IN Scale(st.exchange_rate,
           1000 - 20 * interest_differential + (3 * trade_balance) \div 10)

\* a peg that costs no reserves
update_exchange_rate_costless_peg(x, tp) ==
  LET regime == tp.exchange_rate_regime
      target_rate == tp.exchange_rate_target
      threshold == tp.intervention_threshold
      market == market_rate(x.st)
      direction == IF market > target_rate THEN 1 ELSE -1
      intervention_rate == target_rate + direction * threshold
  IN CASE regime = "fixed" -> [x EXCEPT !.st.exchange_rate = target_rate]
       [] regime = "managed" ->
            IF Abs(market - target_rate) > threshold
              THEN [x EXCEPT !.st.exchange_rate = intervention_rate,
                             !.st.foreign_reserves =
                                @ - Abs(market - intervention_rate) \div 2]
              ELSE [x EXCEPT !.st.exchange_rate = market]
       [] OTHER -> [x EXCEPT !.st.exchange_rate = market]

\* a managed float that draws reserves but lets the market rate through
update_exchange_rate_unbanded(x, tp) ==
  LET regime == tp.exchange_rate_regime
      current_rate == x.st.exchange_rate
      target_rate == tp.exchange_rate_target
      threshold == tp.intervention_threshold
      market == market_rate(x.st)
      direction == IF market > target_rate THEN 1 ELSE -1
      intervention_rate == target_rate + direction * threshold
  IN CASE regime = "fixed" ->
            [x EXCEPT !.st.exchange_rate = target_rate,
                      !.st.foreign_reserves =
                         @ - Abs(current_rate - target_rate)]
       [] regime = "managed" ->
            IF Abs(market - target_rate) > threshold
              THEN [x EXCEPT !.st.exchange_rate = market,
                             !.st.foreign_reserves =
                                @ - Abs(market - intervention_rate) \div 2]
              ELSE [x EXCEPT !.st.exchange_rate = market]
       [] OTHER -> [x EXCEPT !.st.exchange_rate = market]

\* TradeSystem._update_exchange_rate
update_exchange_rate(x, tp) ==
  LET regime == tp.exchange_rate_regime
      current_rate == x.st.exchange_rate
      target_rate == tp.exchange_rate_target
      threshold == tp.intervention_threshold
      market == market_rate(x.st)
      direction == IF market > target_rate THEN 1 ELSE -1
      intervention_rate == target_rate + direction * threshold
      dampening == tp.capital_flow_controls
  IN CASE regime = "fixed" ->
            [x EXCEPT !.st.exchange_rate = target_rate,
                      !.st.foreign_reserves =
                         @ - Abs(current_rate - target_rate)]
       [] regime = "managed" ->
            IF Abs(market - target_rate) > threshold
              THEN [x EXCEPT !.st.exchange_rate = intervention_rate,
                             !.st.foreign_reserves =
                                @ - Abs(market - intervention_rate) \div 2]
              ELSE [x EXCEPT !.st.exchange_rate = market]
       [] OTHER ->
            [x EXCEPT !.st.exchange_rate =
               IF dampening > 0
                 THEN Scale(current_rate, 1000 - dampening)
                        + Scale(market, dampening)
                 ELSE market]

\* TradeSystem._apply_cbdc_trade_effects
apply_cbdc_trade_effects(x, tp) ==
  LET cbdc_settlement == tp.cbdc_trade_settlement
      cross_border_limits == tp.cross_border_cbdc_limits
      transaction_cost_reduction == cbdc_settlement \div 20
      trade_boost == transaction_cost_reduction \div 5
      x1 == IF cbdc_settlement > 0
              THEN [x EXCEPT
                      !.st.exports = Scale(@, 1000 + trade_boost),
                      !.st.imports = Scale(@, 1000 + trade_boost),
                      !.av = Put(x.av, "cbdc_trade_efficiency",
                                 transaction_cost_reduction)]
              ELSE x
      capital_flow_reduction == cross_border_limits \div 10
  IN IF cross_border_limits > 0
       THEN [x1 EXCEPT
               !.st.capital_account = Scale(@, 1000 - capital_flow_reduction),
               !.av = Put(x1.av, "capital_flow_restriction",
                          capital_flow_reduction)]
       ELSE x1

\* TradeSystem.update
trade_update(x, tp) ==
  apply_cbdc_trade_effects(
    update_exchange_rate(
      apply_tariffs(
        update_trade_flows(x, tp), tp), tp), tp)

\* ------------------------------------------------------------- macro core
\* The schedule operators take and return o = [st, av, mp, cp, tp, bp]: the
\* live state, its extension mapping and the four live parameter sets.

\* the parameter sets consulted before the extension mapping
shock_target_parameters_first(name, o) ==
  IF name \in DOMAIN o.st THEN "st"
  ELSE IF name \in DOMAIN o.mp THEN "mp"
  ELSE IF name \in DOMAIN o.cp THEN "cp"
  ELSE IF name \in DOMAIN o.tp THEN "tp"
  ELSE IF name \in DOMAIN o.bp THEN "bp"
  ELSE IF name \in DOMAIN o.av THEN "av"
  ELSE "none"

\* The if/elif chain of _apply_shocks: the first object that carries the
\* name, "none" when no object does.
shock_target(name, o) ==
  IF name \in DOMAIN o.st THEN "st"
  ELSE IF name \in DOMAIN o.av THEN "av"
  ELSE IF name \in DOMAIN o.mp THEN "mp"
  ELSE IF name \in DOMAIN o.cp THEN "cp"
  ELSE IF name \in DOMAIN o.tp THEN "tp"
  ELSE IF name \in DOMAIN o.bp THEN "bp"
  ELSE "none"

\* The if/elif chain of _apply_policy_changes: the four parameter sets only.
policy_target(name, o) ==
  IF name \in DOMAIN o.mp THEN "mp"
  ELSE IF name \in DOMAIN o.cp THEN "cp"
  ELSE IF name \in DOMAIN o.tp THEN "tp"
  ELSE IF name \in DOMAIN o.bp THEN "bp"
  ELSE "none"

\* One iteration of the loop of _apply_shocks.
apply_shock(o, name, shock_value) ==
  LET where == shock_target(name, o)
  IN IF where = "none" THEN o
     ELSE [o EXCEPT ![where][name] = @ + shock_value]

\* One iteration of the loop of _apply_policy_changes.
apply_policy_change(o, name, new_value) ==
  LET where == policy_target(name, o)
  IN IF where = "none" THEN o
     ELSE [o EXCEPT ![where][name] = new_value]

\* The loops over the dictionary of the period.  No entry adds or removes a
\* name of any object, so the order of the iteration does not matter.
\* a dictionary holding a name nothing carries is rejected as a whole
RECURSIVE shock_loop_all_or_nothing(_, _, _)
shock_loop_all_or_nothing(o, shock_dict, names) ==
  IF names = {} \/ \E n \in names : shock_target(n, o) = "none" THEN o
  ELSE LET var_name == CHOOSE n \in names : TRUE
       IN shock_loop_all_or_nothing(
            apply_shock(o, var_name, shock_dict[var_name]),
            shock_dict, names \ {var_name})

RECURSIVE shock_loop(_, _, _)
shock_loop(o, shock_dict, names) ==
  IF names = {} THEN o
  ELSE LET var_name == CHOOSE n \in names : TRUE
       IN shock_loop(apply_shock(o, var_name, shock_dict[var_name]),
                     shock_dict, names \ {var_name})

RECURSIVE policy_loop(_, _, _)
policy_loop(o, policy_dict, names) ==
  IF names = {} THEN o
  ELSE LET var_name == CHOOSE n \in names : TRUE
       IN policy_loop(apply_policy_change(o, var_name, policy_dict[var_name]),
                      policy_dict, names \ {var_name})

\* every entry whose key is not later than the period is applied
apply_shocks_from_key_on(o, shocks, period) ==
  IF \E k \in DOMAIN shocks : k <= period
    THEN LET k == CHOOSE j \in DOMAIN shocks : j <= period
         IN shock_loop(o, shocks[k], DOMAIN shocks[k])
    ELSE o

\* EconomicModel._apply_shocks
apply_shocks(o, shocks, period) ==
  IF period \in DOMAIN shocks
    THEN shock_loop(o, shocks[period], DOMAIN shocks[period])
    ELSE o

\* EconomicModel._apply_policy_changes
apply_policy_changes(o, policy_changes, period) ==
  IF period \in DOMAIN policy_changes
    THEN policy_loop(o, policy_changes[period],
                     DOMAIN policy_changes[period])
    ELSE o

\* What fsolve may do: raise, or return a vector (gdp, interest_rate,
\* exchange_rate, price_level) with its flag ier: 1 when the iteration
\* converged, 5 when it stopped without a root.  _solve_equilibrium calls
\* it without full_output and never sees the flag.
FsolveOutcomes ==
  { [raised |-> TRUE],
    [raised |-> FALSE, x |-> << 22500, 30, 1100, 1050 >>, ier |-> 1],
    [raised |-> FALSE, x |-> << 18000, 20, 950, 980 >>, ier |-> 1],
    [raised |-> FALSE, x |-> << 18000, 20, 950, 980 >>, ier |-> 5] }

\* The except branch of _solve_equilibrium.
fallback(st) ==
  [st EXCEPT !.gdp = Scale(@, 1000 + FallbackGrowth),
             !.price_level = Scale(@, 1000 + FallbackGrowth)]

\* a solve that leaves the exchange rate to the regime rule
solve_equilibrium_keeping_exchange_rate(st, outcome) ==
  IF outcome.raised
    THEN fallback(st)
    ELSE [st EXCEPT !.gdp = outcome.x[1],
                    !.interest_rate = outcome.x[2],
                    !.price_level = outcome.x[4]]

\* EconomicModel._solve_equilibrium, given what fsolve did
solve_equilibrium(st, outcome) ==
  IF outcome.raised
    THEN fallback(st)
    ELSE [st EXCEPT !.gdp = outcome.x[1],
                    !.interest_rate = outcome.x[2],
                    !.exchange_rate = outcome.x[3],
                    !.price_level = outcome.x[4]]

\* the annual rate applied every quarter
potential_growth_annual(potential_gdp, growth) ==
  (potential_gdp * (1000 + growth)) \div 1000

\* potential_gdp *= (1 + potential_output_growth / 4)
potential_growth(potential_gdp, growth) ==
  (potential_gdp * (QuartersPerYear * 1000 + growth))
    \div (QuartersPerYear * 1000)

\* EconomicModel._update_state_variables; hist is self.history
update_state_variables(st, mp, cp, tp, bp, hist) ==
  LET Y == st.gdp
      r == st.interest_rate
      e == st.exchange_rate
      output_gap == ((Y - st.potential_gdp) * 1000) \div st.potential_gdp
      u == mp.natural_unemployment
             - Scale(output_gap, mp.okun_law_coefficient)
      prev_inflation == st.inflation_rate
      inflation_expectation == st.inflation_expectations
      inflation_adjustment ==
        - Scale(u - mp.natural_unemployment, mp.phillips_curve_sensitivity)
      inflation ==
        (prev_inflation + inflation_expectation) \div 2 + inflation_adjustment
          - cp.inflation_indexed_instruments \div 1000
      inflation_gap == inflation - 20
      policy_rate ==
        ZeroLowerBound(mp.neutral_interest_rate
                         + Scale(inflation_gap, mp.taylor_rule_inflation)
                         + Scale(output_gap, mp.taylor_rule_output)
                         + cp.emergency_override_mechanisms)
      disintermediation ==
        (cp.cbdc_interest_rate * bp.cbdc_disintermediation_factor) \div 10
      bank_deposits == Scale(st.bank_deposits, 1000 - disintermediation)
      exports == Scale(Scale(Y, 200), e)
      gross_imports == (250 * Y) \div e
      tariff_effect == Scale(gross_imports, tp.tariff_rate)
      imports == Scale(gross_imports, 1000 - tp.tariff_rate \div 2)
      tax_revenue == st.tax_revenue + tariff_effect
      net_exports == exports - imports
      unemployment_rate == ZeroLowerBound(u)
      budget_deficit == st.government_spending - tax_revenue
      cbdc_supply == Scale(st.cbdc_supply, 1000 + cp.programmable_asset_purchases)
      actual_growth ==
        IF Len(hist) > 0 THEN (Y * 1000) \div hist[Len(hist)].gdp - 1000
        ELSE 0
  IN [st EXCEPT
        !.unemployment_rate = unemployment_rate,
        !.inflation_rate = inflation,
        !.inflation_expectations =
           (mp.adaptive_expectations_weight * prev_inflation
              + (1000 - mp.adaptive_expectations_weight) * inflation)
             \div 1000,
        !.policy_rate = policy_rate,
        !.loan_interest_rate = policy_rate + 20,
        !.deposit_interest_rate = policy_rate - 10,
        !.interbank_rate = policy_rate + 1,
        !.bank_deposits = bank_deposits,
        !.exports = exports,
        !.imports = imports,
        !.tax_revenue = tax_revenue,
        !.net_exports = net_exports,
        !.current_account = net_exports,
        !.capital_account = - net_exports,
        !.consumption =
           mp.autonomous_consumption
             + Scale(Scale(Y - tax_revenue, mp.marginal_propensity_to_consume),
                     1000 - cp.conditional_spending_constraints),
        !.investment =
           mp.autonomous_investment
             - (mp.investment_interest_sensitivity * r) \div 10
             + cp.smart_contract_based_lending \div 10,
        !.financial_stress_index =
           (3 * ((st.government_debt * 1000) \div Y)) \div 10
             + 3 * unemployment_rate + 20 * Abs(inflation - 20),
        !.potential_gdp =
           potential_growth(@, mp.potential_output_growth),
        !.budget_deficit = budget_deficit,
        !.government_debt = @ + budget_deficit,
        !.cbdc_supply = cbdc_supply,
        !.money_supply =
           Scale(bank_deposits, 1000 - bp.reserve_requirement) + cbdc_supply,
        !.growth_expectations =
           (mp.adaptive_expectations_weight * @
              + (1000 - mp.adaptive_expectations_weight) * actual_growth)
             \div 1000]

\* ---------------------------------------------------------------- actions
Live == [ st |-> current_state, av |-> additional_variables ]

\* an exception caught around the step, the run going on with the next one
propagate_swallowed(step) == after(step)

\* run() and step() have no try/except around their calls: an exception
\* raised in a step leaves run(), whichever step it is.
propagate(step) == "aborted"

\* _update_balance_sheets begins with gdp / prev_gdp (prev_gdp defaulting
\* to gdp): a ZeroDivisionError when that is zero.
banking_raises(w) == Get(w.av, "prev_gdp", w.st.gdp) = 0

\* the parameters that hold a string, not a number
StringParameters == { "exchange_rate_regime" }

\* _apply_shocks evaluates getattr(...) + shock_value: a TypeError when the
\* first object carrying the name holds a string under it.
shocks_raise(o, shocks, period) ==
  /\ period \in DOMAIN shocks
  /\ \E name \in DOMAIN shocks[period] :
       name \in StringParameters /\ shock_target(name, o) # "none"

Objects ==
  [ st |-> current_state, av |-> additional_variables, mp |-> macro_params,
    cp |-> cbdc_params, tp |-> trade_params, bp |-> banking_params ]

\* run(), step 1: self.cbdc_system.update(current_state)
CBDCUpdate ==
  /\ pc = "cbdc"
  /\ LET w == cbdc_update(Live, cbdc_params, macro_params)
     IN /\ current_state' = w.st
        /\ additional_variables' = w.av
  /\ pc' = after("cbdc")
  /\ UNCHANGED << config, simulation_class,
                  logs,
                  calculation_logs,
                  macro_params, cbdc_params, trade_params,
                  banking_params, history, results, trade_network, generator,
                  t, fsolve_info, fsolve_log, simulation_no,
                  previous_results >>

\* run(), step 2: self.banking_system.update(current_state)
BankingUpdate ==
  /\ pc = "banking"
  /\ IF banking_raises(Live)
       THEN /\ pc' = propagate("banking")
            /\ UNCHANGED << current_state, additional_variables >>
       ELSE /\ LET w == banking_update(Live, banking_params, cbdc_params)
               IN /\ current_state' = w.st
                  /\ additional_variables' = w.av
            /\ pc' = after("banking")
  /\ UNCHANGED << config, simulation_class,
                  logs,
                  calculation_logs,
                  macro_params, cbdc_params, trade_params,
                  banking_params, history, results, trade_network, generator,
                  t, fsolve_info, fsolve_log, simulation_no,
                  previous_results >>

\* run(), step 3: self.trade_system.update(current_state)
TradeUpdate ==
  /\ pc = "trade"
  /\ LET x == trade_update([ st |-> current_state,
                             av |-> additional_variables,
                             net |-> trade_network ], trade_params)
     IN /\ current_state' = x.st
        /\ additional_variables' = x.av
        /\ trade_network' = x.net
  /\ pc' = after("trade")
  /\ UNCHANGED << config, simulation_class,
                  logs,
                  calculation_logs,
                  macro_params, cbdc_params, trade_params,
                  banking_params, history, results, generator, t,
                  fsolve_info, fsolve_log, simulation_no, previous_results >>

\* step(t): self._apply_shocks(t)
ApplyShocks ==
  /\ pc = "shocks"
  /\ IF shocks_raise(Objects, config.shocks, t)
       THEN /\ pc' = propagate("shocks")
            /\ UNCHANGED << current_state, additional_variables,
                            macro_params, cbdc_params, trade_params,
                            banking_params >>
       ELSE /\ LET o == apply_shocks(Objects, config.shocks, t)
               IN /\ current_state' = o.st
                  /\ additional_variables' = o.av
                  /\ macro_params' = o.mp
                  /\ cbdc_params' = o.cp
                  /\ trade_params' = o.tp
                  /\ banking_params' = o.bp
            /\ pc' = after("shocks")
  /\ UNCHANGED << config, simulation_class,
                  logs,
                  calculation_logs,
                  history, results, trade_network, generator, t,
                  fsolve_info, fsolve_log, simulation_no, previous_results >>

\* step(t): self._apply_policy_changes(t)
ApplyPolicyChanges ==
  /\ pc = "policy"
  /\ LET o == apply_policy_changes(Objects, config.policy_changes, t)
     IN /\ current_state' = o.st
        /\ additional_variables' = o.av
        /\ macro_params' = o.mp
        /\ cbdc_params' = o.cp
        /\ trade_params' = o.tp
        /\ banking_params' = o.bp
  /\ pc' = after("policy")
  /\ UNCHANGED << config, simulation_class,
                  logs,
                  calculation_logs,
                  history, results, trade_network, generator, t,
                  fsolve_info, fsolve_log, simulation_no, previous_results >>

\* the state fields the initial guess and _equilibrium_equations read
SolveReads ==
  { "gdp", "interest_rate", "exchange_rate", "price_level",
    "government_spending", "tax_revenue", "net_exports", "money_supply",
    "potential_gdp" }

\* what _equilibrium_equations and the initial guess read
fsolve_arguments ==
  << [ f \in SolveReads |-> current_state[f] ], macro_params, cbdc_params >>

\* fsolve is a function of its arguments: a call repeated with the same
\* arguments does what it did before.
fsolve_may(outcome) ==
  \A call \in fsolve_log : call[1] = fsolve_arguments => call[2] = outcome

\* step(t): self._solve_equilibrium()
SolveEquilibrium ==
  /\ pc = "solve"
  /\ \E outcome \in FsolveOutcomes :
       /\ fsolve_may(outcome)
       /\ current_state' = solve_equilibrium(current_state, outcome)
       /\ fsolve_info' = IF outcome.raised THEN "raised"
                         ELSE IF outcome.ier = 1 THEN "converged"
                         ELSE "not_converged"
       /\ fsolve_log' = fsolve_log \cup { << fsolve_arguments, outcome >> }
  /\ pc' = after("solve")
  /\ Logged(SolveTitles)
  /\ UNCHANGED << config, simulation_class,
                  additional_variables, macro_params, cbdc_params,
                  trade_params, banking_params, history, results,
                  trade_network, generator, t, simulation_no,
                  previous_results >>

\* step(t): self._update_state_variables()
UpdateStateVariables ==
  /\ pc = "derive"
  /\ current_state' =
       update_state_variables(current_state, macro_params, cbdc_params,
                              trade_params, banking_params, history)
  /\ pc' = after("derive")
  /\ Logged(UpdateTitles)
  /\ UNCHANGED << config, simulation_class,
                  additional_variables, macro_params, cbdc_params,
                  trade_params, banking_params, history, results,
                  trade_network, generator, t, fsolve_info, fsolve_log,
                  simulation_no, previous_results >>

\* a history whose entries all refer to the one live state object
save_state_by_reference(hist, st, av) ==
  [ i \in 1..(Len(hist) + 1) |-> as_dict(st, av) ]

\* save_state: the dictionary as_dict builds afresh is appended
save_state(hist, st, av) == Append(hist, as_dict(st, av))

\* step(t): self.save_state()
SaveState ==
  /\ pc = "save_state"
  /\ history' = save_state(history, current_state, additional_variables)
  /\ pc' = after("save_state")
  /\ UNCHANGED << config, simulation_class,
                  logs,
                  calculation_logs,
                  current_state, additional_variables, macro_params,
                  cbdc_params, trade_params, banking_params, results,
                  trade_network, generator, t, fsolve_info, fsolve_log,
                  simulation_no, previous_results >>

\* the save frequency counted from period 1
should_store_shifted(period, save_frequency) ==
  (period + 1) % save_frequency = 0

\* if t % self.config.save_frequency == 0
should_store(period, save_frequency) == period % save_frequency = 0

\* run(): the append to self.results, then the next iteration of the loop
StoreResults ==
  /\ pc = "store"
  /\ results' =
       IF should_store(t, config.save_frequency)
         THEN Append(results, as_dict(current_state, additional_variables))
         ELSE results
  /\ t' = t + 1
  /\ pc' = IF t + 1 < config.time_horizon THEN RunOrder[1] ELSE "done"
  /\ UNCHANGED << config, simulation_class,
                  logs,
                  calculation_logs,
                  current_state, additional_variables, macro_params,
                  cbdc_params, trade_params, banking_params, history,
                  trade_network, generator, fsolve_info, fsolve_log,
                  simulation_no, previous_results >>

Next ==
  \/ Construct
  \/ CBDCUpdate
  \/ BankingUpdate
  \/ TradeUpdate
  \/ ApplyShocks
  \/ ApplyPolicyChanges
  \/ SolveEquilibrium
  \/ UpdateStateVariables
  \/ SaveState
  \/ StoreResults

Spec == Init /\ [][Next]_vars

\* A caller that has run one simulation builds an equal fresh configuration
\* and a second simulation from it, in the same process: the live objects
\* start again from the configured values, the global generator and the
\* behaviour of fsolve are those of the process.
NewRun ==
  /\ pc = "done"
  /\ simulation_no = 1
  /\ previous_results' = results
  /\ simulation_no' = 2
  /\ current_state' = config.initial_state
  /\ additional_variables' = config.additional_variables
  /\ macro_params' = config.macro_parameters
  /\ cbdc_params' = config.cbdc_parameters
  /\ trade_params' = config.trade_parameters
  /\ banking_params' = config.banking_parameters
  /\ history' = <<>>
  /\ results' = <<>>
  /\ trade_network' = EmptyNetwork
  /\ t' = 0
  /\ pc' = "construct"
  /\ UNCHANGED << config, simulation_class,
                  logs,
                  calculation_logs,
                  generator, fsolve_info, fsolve_log >>

NextTwoRuns == Next \/ NewRun

\* The configurations the two simulations are built from: the default
\* CBDC rate of the adoption test, with no schedule, with the recession
\* shock in period 0, or with a CBDC policy change in period 1.
ConfigsTwoRuns ==
  { c \in Configs :
      /\ c.additional_variables = << >>
      /\ c.cbdc_parameters.cbdc_interest_rate = 30
      /\ \/ DOMAIN c.shocks = {} /\ DOMAIN c.policy_changes = {}
         \/ /\ DOMAIN c.shocks = {0} /\ DOMAIN c.policy_changes = {}
            /\ "gdp" \in DOMAIN c.shocks[0]
         \/ /\ DOMAIN c.shocks = {} /\ DOMAIN c.policy_changes = {1}
            /\ "cbdc_supply" \in DOMAIN c.policy_changes[1] }

InitTwoRuns == Init /\ config \in ConfigsTwoRuns

SpecTwoRuns == InitTwoRuns /\ [][NextTwoRuns]_vars

\* Keys a schedule may carry besides the periods of the run: a negative
\* key and a key no run reaches.
WideKeys == { -1, 0, 1, MaxHorizon }

\* The default configuration with one shock entry and one policy-change
\* entry under any two keys; each entry names a parameter and a name that
\* nothing carries.
ConfigsSchedules ==
  { [c EXCEPT
       !.shocks = (k :> [capital_requirement |-> 40, unknown_variable |-> 7]),
       !.policy_changes = (j :> [tariff_rate |-> 150, unknown_variable |-> 3])] :
    c \in { b \in Configs :
              /\ DOMAIN b.shocks = {} /\ DOMAIN b.policy_changes = {}
              /\ b.additional_variables = << >>
              /\ b.cbdc_parameters.cbdc_interest_rate = 0
              /\ b.save_frequency = 1 },
    k \in WideKeys, j \in WideKeys }

InitSchedules == InitFrom(ConfigsSchedules)

SpecSchedules == InitSchedules /\ [][Next]_vars

\* Configurations in which a step raises, and the default one: an initial
\* GDP of zero, or a shock that names the string-valued exchange-rate
\* regime in period 0 or 1.
ConfigsAbort ==
  LET Base == { b \in Configs :
                  /\ DOMAIN b.shocks = {} /\ DOMAIN b.policy_changes = {}
                  /\ b.additional_variables = << >>
                  /\ b.cbdc_parameters.cbdc_interest_rate = 0
                  /\ b.save_frequency = 1 }
  IN Base
       \cup { [c EXCEPT !.initial_state.gdp = 0] : c \in Base }
       \cup { [c EXCEPT !.shocks = (k :> [exchange_rate_regime |-> 1])] :
                c \in Base, k \in ScheduleKeys }

InitAbort == InitFrom(ConfigsAbort)

SpecAbort == InitAbort /\ [][Next]_vars

\* The default configuration with one shock that raises unemployment_rate
\* by one or two points in a period k that has a period before and after it
\* (the Phillips-curve test uses two points in period 5 of 20).
ConfigsUnemploymentShock ==
  { [ time_horizon |-> h, save_frequency |-> 1, random_seed |-> 42,
      initial_state |-> DefaultState,
      additional_variables |-> << >>,
      macro_parameters |-> DefaultMacro,
      cbdc_parameters |-> DefaultCBDC,
      trade_parameters |-> DefaultTrade,
      banking_parameters |-> DefaultBanking,
      shocks |-> (k :> [unemployment_rate |-> size]),
      policy_changes |-> << >> ] :
    h \in 3..MaxHorizon, k \in 1..(MaxHorizon - 2), size \in {10, 20} }

InitUnemploymentShock == InitFrom(ConfigsUnemploymentShock)

SpecUnemploymentShock == InitUnemploymentShock /\ [][Next]_vars

\* The lists a caller hands to the enhanced simulation: an empty one, as in
\* the logging test, or one that already holds an entry.
CallerLists == { << >>, << "earlier entry" >> }

\* EnhancedCBDCSimulation(config, logs) on the default configuration
InitEnhanced ==
  /\ config \in { c \in Configs :
                    /\ DOMAIN c.shocks = {} /\ DOMAIN c.policy_changes = {}
                    /\ c.additional_variables = << >>
                    /\ c.cbdc_parameters.cbdc_interest_rate = 0
                    /\ c.save_frequency = 1 }
  /\ simulation_class = "EnhancedCBDCSimulation"
  /\ logs \in CallerLists
  /\ calculation_logs = NoLogs
  /\ current_state = config.initial_state
  /\ additional_variables = config.additional_variables
  /\ macro_params = config.macro_parameters
  /\ cbdc_params = config.cbdc_parameters
  /\ trade_params = config.trade_parameters
  /\ banking_params = config.banking_parameters
  /\ history = <<>>
  /\ results = <<>>
  /\ trade_network = EmptyNetwork
  /\ generator \in {0, 11}
  /\ pc = "construct"
  /\ t = 0
  /\ fsolve_info = "none"
  /\ fsolve_log = {}
  /\ simulation_no = 1
  /\ previous_results = <<>>

SpecEnhanced == InitEnhanced /\ [][Next]_vars

\* The default configuration with a capital requirement of 12% instead of
\* 8%, above the 10.4% the banking sector holds in period 0.
ConfigsCapital ==
  { [c EXCEPT !.banking_parameters.capital_requirement = 120] :
      c \in { b \in Configs :
                /\ DOMAIN b.shocks = {} /\ DOMAIN b.policy_changes = {}
                /\ b.additional_variables = << >>
                /\ b.cbdc_parameters.cbdc_interest_rate = 0
                /\ b.save_frequency = 1 } }

InitCapital == InitFrom(ConfigsCapital)

SpecCapital == InitCapital /\ [][Next]_vars

\* The default configuration with smart-contract lending switched on (0.8,
\* the value of the banking-crisis scenario) and a policy change that sets
\* it back to zero in period 0 or 1.
ConfigsLending ==
  { [ time_horizon |-> h, save_frequency |-> 1, random_seed |-> 42,
      initial_state |-> DefaultState,
      additional_variables |-> << >>,
      macro_parameters |-> DefaultMacro,
      cbdc_parameters |->
        [DefaultCBDC EXCEPT !.smart_contract_based_lending = 800],
      trade_parameters |-> DefaultTrade,
      banking_parameters |-> DefaultBanking,
      shocks |-> << >>,
      policy_changes |-> (k :> [smart_contract_based_lending |-> 0]) ] :
    h \in 1..MaxHorizon, k \in ScheduleKeys }

InitLending == InitFrom(ConfigsLending)

SpecLending == InitLending /\ [][Next]_vars

\* Validity periods in days: negative, zero, around the floor of 30 days,
\* the 180 days of the adoption scenario, around the year, and beyond.
ValidityDays == { -30, -1, 0, 1, 29, 30, 31, 180, 364, 365, 366, 730 }

\* The default configuration with some programmable_money_validity, run
\* for one or two periods.
ConfigsValidity ==
  { [ time_horizon |-> h, save_frequency |-> 1, random_seed |-> 42,
      initial_state |-> DefaultState,
      additional_variables |-> << >>,
      macro_parameters |-> DefaultMacro,
      cbdc_parameters |->
        [DefaultCBDC EXCEPT !.programmable_money_validity = v],
      trade_parameters |-> DefaultTrade,
      banking_parameters |-> DefaultBanking,
      shocks |-> << >>, policy_changes |-> << >> ] :
    h \in {1, 2}, v \in ValidityDays }

InitValidity == InitFrom(ConfigsValidity)

SpecValidity == InitValidity /\ [][Next]_vars

\* The three exchange-rate regimes.
Regimes == { "floating", "managed", "fixed" }

\* The default configuration under each regime, with the default target of
\* 1.0 or a target of 1.05, away from the initial rate.
ConfigsRegimes ==
  { [ time_horizon |-> h, save_frequency |-> 1, random_seed |-> 42,
      initial_state |-> DefaultState,
      additional_variables |-> << >>,
      macro_parameters |-> DefaultMacro,
      cbdc_parameters |-> DefaultCBDC,
      trade_parameters |->
        [DefaultTrade EXCEPT !.exchange_rate_regime = regime,
                             !.exchange_rate_target = target],
      banking_parameters |-> DefaultBanking,
      shocks |-> << >>, policy_changes |-> << >> ] :
    h \in 1..MaxHorizon, regime \in Regimes, target \in {1000, 1050} }

InitRegimes == InitFrom(ConfigsRegimes)

SpecRegimes == InitRegimes /\ [][Next]_vars

\* The default configuration with a constant automatic fiscal transfer:
\* none, 50 or 200 a period, and no schedule.
ConfigsTransfers ==
  { [ time_horizon |-> h, save_frequency |-> 1, random_seed |-> 42,
      initial_state |-> DefaultState,
      additional_variables |-> << >>,
      macro_parameters |-> DefaultMacro,
      cbdc_parameters |->
        [DefaultCBDC EXCEPT !.automatic_fiscal_transfers = transfer],
      trade_parameters |-> DefaultTrade,
      banking_parameters |-> DefaultBanking,
      shocks |-> << >>, policy_changes |-> << >> ] :
    h \in 1..MaxHorizon, transfer \in {0, 50, 200} }

InitTransfers == InitFrom(ConfigsTransfers)

SpecTransfers == InitTransfers /\ [][Next]_vars

\* Shocks to state fields that the derivation recomputes: unemployment_rate
\* (Okun's law) and policy_rate (Taylor rule).
RecomputedFieldShocks ==
  { [unemployment_rate |-> 20], [policy_rate |-> 10],
    [unemployment_rate |-> -50, policy_rate |-> -30] }

\* the default configuration, no schedule
ConfigsUnscheduled ==
  { c \in Configs :
      /\ DOMAIN c.shocks = {} /\ DOMAIN c.policy_changes = {}
      /\ c.additional_variables = << >>
      /\ c.cbdc_parameters.cbdc_interest_rate = 0
      /\ c.save_frequency = 1 }

InitShockPair == InitFrom(ConfigsUnscheduled)

\* A second simulation in the same process, from a fresh configuration
\* equal to the first but for one shock to a recomputed state field.
NewRunShocked ==
  /\ pc = "done"
  /\ simulation_no = 1
  /\ \E k \in ScheduleKeys, d \in RecomputedFieldShocks :
       config' = [config EXCEPT !.shocks = (k :> d)]
  /\ previous_results' = results
  /\ simulation_no' = 2
  /\ current_state' = config.initial_state
  /\ additional_variables' = config.additional_variables
  /\ macro_params' = config.macro_parameters
  /\ cbdc_params' = config.cbdc_parameters
  /\ trade_params' = config.trade_parameters
  /\ banking_params' = config.banking_parameters
  /\ history' = <<>>
  /\ results' = <<>>
  /\ trade_network' = EmptyNetwork
  /\ t' = 0
  /\ pc' = "construct"
  /\ UNCHANGED << simulation_class, logs, calculation_logs, generator,
                  fsolve_info, fsolve_log >>

NextShockPair == Next \/ NewRunShocked

SpecShockPair == InitShockPair /\ [][NextShockPair]_vars

\* The configuration object as its holder sees it: the sector modules keep
\* config.initial_state and the four parameter objects themselves, not
\* copies, so the object's attributes are the live state and parameters.
\* (The variable config keeps the values it was created with.)
ConfigObject ==
  [config EXCEPT !.initial_state = current_state,
                 !.additional_variables = additional_variables,
                 !.macro_parameters = macro_params,
                 !.cbdc_parameters = cbdc_params,
                 !.trade_parameters = trade_params,
                 !.banking_parameters = banking_params]

\* a second simulation from a configuration copied before the first run
NewRunFromCopiedConfig ==
  /\ pc = "done"
  /\ simulation_no = 1
  /\ previous_results' = results
  /\ simulation_no' = 2
  /\ current_state' = config.initial_state
  /\ additional_variables' = config.additional_variables
  /\ macro_params' = config.macro_parameters
  /\ cbdc_params' = config.cbdc_parameters
  /\ trade_params' = config.trade_parameters
  /\ banking_params' = config.banking_parameters
  /\ history' = <<>>
  /\ results' = <<>>
  /\ trade_network' = EmptyNetwork
  /\ t' = 0
  /\ pc' = "construct"
  /\ UNCHANGED << config, simulation_class, logs, calculation_logs,
                  generator, fsolve_info, fsolve_log >>

\* A second CBDCSimulation built from the same configuration object after
\* the first has run: its modules take over the object's state and
\* parameters as the first run left them.
NewRunSameConfig ==
  /\ pc = "done"
  /\ simulation_no = 1
  /\ previous_results' = results
  /\ simulation_no' = 2
  /\ current_state' = ConfigObject.initial_state
  /\ additional_variables' = ConfigObject.additional_variables
  /\ macro_params' = ConfigObject.macro_parameters
  /\ cbdc_params' = ConfigObject.cbdc_parameters
  /\ trade_params' = ConfigObject.trade_parameters
  /\ banking_params' = ConfigObject.banking_parameters
  /\ history' = <<>>
  /\ results' = <<>>
  /\ trade_network' = EmptyNetwork
  /\ t' = 0
  /\ pc' = "construct"
  /\ UNCHANGED << config, simulation_class, logs, calculation_logs,
                  generator, fsolve_info, fsolve_log >>

\* The default configuration for one or two periods, without a schedule or
\* with the tariff policy change of the trade-war scenario.
ConfigsSameConfig ==
  { c \in Configs :
      /\ c.time_horizon <= 2
      /\ c.additional_variables = << >>
      /\ c.cbdc_parameters.cbdc_interest_rate = 0
      /\ c.save_frequency = 1
      /\ DOMAIN c.shocks = {}
      /\ \A k \in DOMAIN c.policy_changes :
            DOMAIN c.policy_changes[k] = {"tariff_rate"} }

InitSameConfig == InitFrom(ConfigsSameConfig)

NextSameConfig == Next \/ NewRunSameConfig

SpecSameConfig == InitSameConfig /\ [][NextSameConfig]_vars

\* ================================================================= claims
H == config.time_horizon

N == config.save_frequency

\* ---------------------------------------------------------------------- C1
\* C1: within run, the steps of every period follow one another in the
\* order CBDC update, banking update, trade update, shocks, policy changes,
\* solve, derivation, snapshot (save_state, then the result list); a period
\* starts only from construction (period 0) or from the snapshot of the
\* period before, and the periods are taken in increasing order up to the
\* time horizon.
C1_StepOrder ==
  [][ /\ (pc = "construct" => pc' = "cbdc" /\ t' = 0)
      /\ (pc = "cbdc" => pc' = "banking" /\ t' = t)
      /\ (pc = "banking" => pc' = "trade" /\ t' = t)
      /\ (pc = "trade" => pc' = "shocks" /\ t' = t)
      /\ (pc = "shocks" => pc' = "policy" /\ t' = t)
      /\ (pc = "policy" => pc' = "solve" /\ t' = t)
      /\ (pc = "solve" => pc' = "derive" /\ t' = t)
      /\ (pc = "derive" => pc' = "save_state" /\ t' = t)
      /\ (pc = "save_state" =>
            /\ pc' = "store" /\ t' = t
            /\ Len(history') = Len(history) + 1)
      /\ (pc = "store" =>
            /\ t' = t + 1
            /\ pc' = IF t' < H THEN "cbdc" ELSE "done")
    ]_vars

\* a run of several periods has completed
C1_Witness == pc = "done" /\ t = H /\ H >= 2 /\ Len(history) = H + 1

\* ---------------------------------------------------------------------- C2
\* the periods whose state run() stores
StoredPeriods == { k \in 0..(H - 1) : k % N = 0 }

\* C2: when run returns, the output series holds exactly one row for each
\* period t < H with t mod N = 0, in increasing period order (row i is the
\* state saved after period (i - 1) * N), so H rows when N = 1; and the
\* macro core's history holds H + 1 entries.
C2_SeriesLength ==
  pc = "done" =>
    /\ Len(results) = Cardinality(StoredPeriods)
    /\ \A i \in 1..Len(results) :
         /\ (i - 1) * N \in StoredPeriods
         /\ results[i] = history[(i - 1) * N + 2]
    /\ (N = 1 => Len(results) = H)
    /\ Len(history) = H + 1

\* a run in which some periods are stored and others are not
C2_Witness == pc = "done" /\ H = 3 /\ N = 2 /\ Len(results) = 2

\* ---------------------------------------------------------------------- C3
\* C3 as claimed: the gdp of the first row of the output series equals the
\* configured initial GDP.
C3_FirstRowIsInitialGDP ==
  Len(results) >= 1 => results[1].gdp = config.initial_state.gdp

\* C3 as amended: the first entry of the macro core's history, saved at
\* construction, has the configured initial GDP; the first row of the
\* output series is the state saved after period 0.
C3_HistoryStartsAtInitialGDP ==
  /\ Len(history) >= 1 => history[1].gdp = config.initial_state.gdp
  /\ Len(results) >= 1 => results[1] = history[2]

\* the first row differs from the initial GDP kept in the history
C3_Witness ==
  /\ Len(results) >= 1
  /\ history[1].gdp = config.initial_state.gdp
  /\ results[1].gdp # config.initial_state.gdp

\* ---------------------------------------------------------------------- C4
\* potential output after k quarters of growth at the annual rate growth
RECURSIVE GeometricPotential(_, _, _)
GeometricPotential(initial, growth, k) ==
  IF k = 0 THEN initial
  ELSE (GeometricPotential(initial, growth, k - 1) * (4000 + growth))
         \div 4000

\* the number of periods the live state has completed the derivation of
PeriodsDerived == IF pc \in {"save_state", "store"} THEN t + 1 ELSE t

\* C4 as claimed: after k completed periods potential_gdp is the initial
\* potential_gdp grown k times at the configured quarterly rate, for every
\* schedule and every solver outcome.
C4_PotentialGeometricAlways ==
  pc # "construct" =>
    current_state.potential_gdp =
      GeometricPotential(config.initial_state.potential_gdp,
                         config.macro_parameters.potential_output_growth,
                         PeriodsDerived)

\* no shock names potential_gdp, and no shock or policy change names
\* potential_output_growth
PotentialUnscheduled ==
  /\ \A k \in DOMAIN config.shocks :
       DOMAIN config.shocks[k]
         \cap {"potential_gdp", "potential_output_growth"} = {}
  /\ \A k \in DOMAIN config.policy_changes :
       "potential_output_growth" \notin DOMAIN config.policy_changes[k]

\* C4 as amended: the same, for the configurations whose schedules leave
\* potential_gdp and potential_output_growth alone; every other shock and
\* policy change and every solver outcome is covered, and every history
\* entry records the value of its period.
C4_PotentialGeometric ==
  PotentialUnscheduled =>
    /\ pc # "construct" =>
         current_state.potential_gdp =
           GeometricPotential(config.initial_state.potential_gdp,
                              config.macro_parameters.potential_output_growth,
                              PeriodsDerived)
    /\ \A i \in 1..Len(history) :
         history[i].potential_gdp =
           GeometricPotential(config.initial_state.potential_gdp,
                              config.macro_parameters.potential_output_growth,
                              i - 1)

\* a shocked run whose solve once fell back has grown potential output
C4_Witness ==
  /\ pc = "done" /\ H >= 2
  /\ PotentialUnscheduled
  /\ 0 \in DOMAIN config.shocks
  /\ fsolve_info = "raised"
  /\ current_state.potential_gdp > config.initial_state.potential_gdp

\* ---------------------------------------------------------------------- C5
\* the states recorded after a period: the rows of the output series and
\* the history entries after the initial one
RecordedAfterPeriod ==
  { results[i] : i \in 1..Len(results) }
    \cup { history[i] : i \in 2..Len(history) }

\* C5: every state recorded after a period has unemployment_rate >= 0 and
\* policy_rate >= 0, whatever the shocks, policy changes and solver results.
C5_NonNegativeRates ==
  \A row \in RecordedAfterPeriod :
    row.unemployment_rate >= 0 /\ row.policy_rate >= 0

\* a run that recorded a period at each of the two floors
C5_Witness ==
  /\ \E row \in RecordedAfterPeriod : row.unemployment_rate = 0
  /\ \E row \in RecordedAfterPeriod : row.policy_rate = 0
  /\ config.shocks # NoSchedule

\* ---------------------------------------------------------------------- C6
\* total assets less deposits, borrowings and equity of a recorded state
BalanceSheetGap(row) ==
  row.bank_loans + row.bank_reserves + row.bank_securities
    + row.bank_other_assets
    - (row.bank_deposits + row.bank_borrowings + row.bank_equity)

RowAssets(row) ==
  row.bank_loans + row.bank_reserves + row.bank_securities
    + row.bank_other_assets

\* C6: in the state recorded at the end of every period, total assets
\* (loans + reserves + securities + other assets) equal deposits +
\* borrowings + equity to within one per mille of total assets (the
\* rounding of whole money units is far below that).  Stated for the
\* configurations without shocks and policy changes, where nothing but the
\* banking update and the macro step writes the balance sheet.
C6_BalanceSheetIdentity ==
  (DOMAIN config.shocks = {} /\ DOMAIN config.policy_changes = {}) =>
    \A i \in 2..Len(history) :
      Abs(BalanceSheetGap(history[i])) * 1000 <= RowAssets(history[i])

\* ---------------------------------------------------------------------- C7
\* C7: when the solve of a period fails, by an exception or by stopping
\* without a root, gdp and price_level become their pre-solve values times
\* 1.005, interest_rate and exchange_rate keep their pre-solve values, and
\* the period continues with the derivation.
C7_FailedSolveFallsBack ==
  [][ (pc = "solve" /\ fsolve_info' \in {"raised", "not_converged"}) =>
        /\ current_state'.gdp = (current_state.gdp * 1005) \div 1000
        /\ current_state'.price_level =
             (current_state.price_level * 1005) \div 1000
        /\ current_state'.interest_rate = current_state.interest_rate
        /\ current_state'.exchange_rate = current_state.exchange_rate
        /\ pc' = "derive"
    ]_vars

\* ---------------------------------------------------------------------- C8
\* C8: a second simulation built from an equal fresh configuration with
\* the same seed returns the output series of the first, row by row and
\* field by field, whatever state the generator was in before either
\* construction.
C8_SameSeedSameSeries ==
  (simulation_no = 2 /\ pc = "done") => results = previous_results

\* both simulations have run several periods through the network-dependent
\* trade update
C8_Witness ==
  /\ simulation_no = 2 /\ pc = "done"
  /\ Len(previous_results) >= 2
  /\ Len(results) = Len(previous_results)
  /\ results[1].exports > 0

\* ---------------------------------------------------------------------- C9
\* the objects a scheduled name is looked up in, in the order of the lookup
Carriers == << "st", "av", "mp", "cp", "tp", "bp" >>

\* position in Carriers of the first object carrying the name, 0 if none
FirstCarrier(name) ==
  LET carrying == { i \in 1..Len(Carriers) :
                      name \in DOMAIN Objects[Carriers[i]] }
  IN IF carrying = {} THEN 0
     ELSE CHOOSE i \in carrying : \A j \in carrying : i <= j

\* C9: the shock step of period t adds shocks[t][name] to the entry called
\* name of the first object that carries the name, in the order state
\* field, state extension entry, macro, CBDC, trade, banking parameter, and
\* leaves every other entry of every object, and the names each object
\* carries, unchanged.
C9_ShockFirstMatch ==
  [][ pc = "shocks" =>
        \A c \in 1..Len(Carriers) :
          /\ DOMAIN Objects'[Carriers[c]] = DOMAIN Objects[Carriers[c]]
          /\ \A name \in DOMAIN Objects[Carriers[c]] :
               Objects'[Carriers[c]][name] =
                 IF /\ t \in DOMAIN config.shocks
                    /\ name \in DOMAIN config.shocks[t]
                    /\ FirstCarrier(name) = c
                   THEN Objects[Carriers[c]][name] + config.shocks[t][name]
                   ELSE Objects[Carriers[c]][name]
    ]_vars

\* a shock to a name carried by the extension mapping and by the trade
\* parameters has been added to the extension entry only
C9_Witness ==
  /\ pc = "policy"
  /\ t \in DOMAIN config.shocks
  /\ "tariff_rate" \in DOMAIN config.shocks[t]
  /\ "tariff_rate" \in DOMAIN config.additional_variables
  /\ additional_variables["tariff_rate"]
       = config.additional_variables["tariff_rate"]
           + config.shocks[t]["tariff_rate"]
  /\ trade_params.tariff_rate = config.trade_parameters.tariff_rate

\* --------------------------------------------------------------------- C10
\* C10: the policy step of period t replaces, with policy_changes[t][name],
\* the entry called name of the first object that carries the name in the
\* order of the shock lookup (state field, state extension entry, macro,
\* CBDC, trade, banking parameter), and leaves everything else unchanged.
C10_PolicySameResolution ==
  [][ pc = "policy" =>
        \A c \in 1..Len(Carriers) :
          /\ DOMAIN Objects'[Carriers[c]] = DOMAIN Objects[Carriers[c]]
          /\ \A name \in DOMAIN Objects[Carriers[c]] :
               Objects'[Carriers[c]][name] =
                 IF /\ t \in DOMAIN config.policy_changes
                    /\ name \in DOMAIN config.policy_changes[t]
                    /\ FirstCarrier(name) = c
                   THEN config.policy_changes[t][name]
                   ELSE Objects[Carriers[c]][name]
    ]_vars

\* --------------------------------------------------------------------- C11
\* the parameter sets, which nothing but the schedule steps writes
ParameterSets == { "mp", "cp", "tp", "bp" }

ConfiguredParameters ==
  [ mp |-> config.macro_parameters, cp |-> config.cbdc_parameters,
    tp |-> config.trade_parameters, bp |-> config.banking_parameters ]

\* the three sector updates of a period
SectorSteps == { "cbdc", "banking", "trade" }

\* C11: a shock or policy change keyed t is in effect when period t starts:
\* while the CBDC, banking and trade updates of period t run, a parameter
\* named by policy_changes[t] has the scheduled value, and a parameter that
\* shocks[t] resolves to (and no policy change names) has its configured
\* value plus the delta.
C11_InEffectForSectorUpdates ==
  pc \in SectorSteps =>
    /\ t \in DOMAIN config.policy_changes =>
         \A name \in DOMAIN config.policy_changes[t] :
           \A c \in ParameterSets :
             (name \in DOMAIN Objects[c] /\ FirstCarrier(name) > 2
                /\ Carriers[FirstCarrier(name)] = c)
               => Objects[c][name] = config.policy_changes[t][name]
    /\ t \in DOMAIN config.shocks =>
         \A name \in DOMAIN config.shocks[t] :
           \A c \in ParameterSets :
             (/\ name \in DOMAIN Objects[c]
              /\ FirstCarrier(name) > 2
              /\ Carriers[FirstCarrier(name)] = c
              /\ \A k \in DOMAIN config.policy_changes :
                   name \notin DOMAIN config.policy_changes[k])
               => Objects[c][name]
                    = ConfiguredParameters[c][name] + config.shocks[t][name]

\* --------------------------------------------------------------------- C12
\* the steps of a period that follow its shock step, and its policy step
AfterShockStep == { "policy", "solve", "derive", "save_state", "store" }

AfterPolicyStep == { "solve", "derive", "save_state", "store" }

\* the entry keyed k has been applied by the shock (policy) step of period k
ShockApplied(k) ==
  k \in 0..(H - 1) /\ (k < t \/ (k = t /\ pc \in AfterShockStep))

PolicyApplied(k) ==
  k \in 0..(H - 1) /\ (k < t \/ (k = t /\ pc \in AfterPolicyStep))

\* every parameter is its configured value, plus the delta of a shock entry
\* once the step of the entry's period has run, or the value of a policy
\* entry once the step of its period has run
ParametersFollowSchedule ==
  \A c \in ParameterSets :
    \A name \in DOMAIN Objects[c] :
      Objects[c][name] =
        IF \E k \in DOMAIN config.policy_changes :
             name \in DOMAIN config.policy_changes[k] /\ PolicyApplied(k)
          THEN LET k == CHOOSE j \in DOMAIN config.policy_changes :
                          name \in DOMAIN config.policy_changes[j]
               IN config.policy_changes[k][name]
        ELSE IF \E k \in DOMAIN config.shocks :
                  name \in DOMAIN config.shocks[k] /\ ShockApplied(k)
          THEN LET k == CHOOSE j \in DOMAIN config.shocks :
                          name \in DOMAIN config.shocks[j]
               IN ConfiguredParameters[c][name] + config.shocks[k][name]
        ELSE ConfiguredParameters[c][name]

\* C12: a schedule entry keyed t in 0..H-1 is applied exactly once, by the
\* schedule step of period t (from then on the parameter it names carries
\* the one delta, or the scheduled value); a schedule step of a period
\* without an entry changes no state field, extension entry or parameter;
\* an entry keyed below 0 or at or above H is never applied.
C12_AppliedOnceInItsPeriod ==
  [][ /\ ParametersFollowSchedule
      /\ ParametersFollowSchedule'
      /\ (pc = "shocks" /\ t \notin DOMAIN config.shocks) =>
            Objects' = Objects
      /\ (pc = "policy" /\ t \notin DOMAIN config.policy_changes) =>
            Objects' = Objects
    ]_vars

\* a run of two or more periods has ended with the shock keyed -1 never
\* applied and the policy change keyed 1 in force
C12_Witness ==
  /\ pc = "done" /\ H >= 2
  /\ DOMAIN config.shocks = {-1}
  /\ banking_params.capital_requirement
       = config.banking_parameters.capital_requirement
  /\ DOMAIN config.policy_changes = {1}
  /\ trade_params.tariff_rate = config.policy_changes[1]["tariff_rate"]
  /\ trade_params.tariff_rate # config.trade_parameters.tariff_rate

\* --------------------------------------------------------------------- C13
\* the names of a schedule entry that no state field, extension entry or
\* parameter carries
UnknownNames(entry) == { name \in DOMAIN entry : FirstCarrier(name) = 0 }

\* C13: a schedule step whose entry holds a name that nothing carries ends
\* normally (the run goes on to the next step), adds that name to no
\* object and changes nothing because of it, and still applies the other
\* names of the entry: a shock adds its delta to the first carrier of the
\* name, a policy change sets the parameter of that name.
C13_UnknownNamesDropped ==
  [][ /\ ( /\ pc = "shocks"
           /\ t \in DOMAIN config.shocks
           /\ UnknownNames(config.shocks[t]) # {} ) =>
            /\ pc' = "policy"
            /\ \A c \in 1..Len(Carriers) :
                 /\ DOMAIN Objects'[Carriers[c]] = DOMAIN Objects[Carriers[c]]
                 /\ \A name \in DOMAIN Objects[Carriers[c]] :
                      Objects'[Carriers[c]][name] =
                        IF name \in DOMAIN config.shocks[t]
                             /\ FirstCarrier(name) = c
                          THEN Objects[Carriers[c]][name]
                                 + config.shocks[t][name]
                          ELSE Objects[Carriers[c]][name]
      /\ ( /\ pc = "policy"
           /\ t \in DOMAIN config.policy_changes
           /\ UnknownNames(config.policy_changes[t]) # {} ) =>
            /\ pc' = "solve"
            /\ current_state' = current_state
            /\ additional_variables' = additional_variables
            /\ \A c \in ParameterSets :
                 /\ DOMAIN Objects'[c] = DOMAIN Objects[c]
                 /\ \A name \in DOMAIN Objects[c] :
                      Objects'[c][name] =
                        IF name \in DOMAIN config.policy_changes[t]
                             /\ FirstCarrier(name) > 2
                             /\ Carriers[FirstCarrier(name)] = c
                          THEN config.policy_changes[t][name]
                          ELSE Objects[c][name]
    ]_vars

\* both schedule steps of one period have met an unknown name and applied
\* the parameter named next to it
C13_Witness ==
  /\ pc = "solve"
  /\ t \in DOMAIN config.shocks /\ t \in DOMAIN config.policy_changes
  /\ UnknownNames(config.shocks[t]) # {}
  /\ UnknownNames(config.policy_changes[t]) # {}
  /\ banking_params.capital_requirement
       = config.banking_parameters.capital_requirement
           + config.shocks[t]["capital_requirement"]
  /\ trade_params.tariff_rate = config.policy_changes[t]["tariff_rate"]
  /\ "unknown_variable" \notin DOMAIN additional_variables

\* --------------------------------------------------------------------- C14
\* the step about to run raises: the banking update divides by a zero GDP,
\* or the shock step adds a number to the string-valued regime
StepRaises ==
  \/ /\ pc = "banking"
     /\ "prev_gdp" \notin DOMAIN additional_variables
     /\ current_state.gdp = 0
  \/ /\ pc = "shocks"
     /\ t \in DOMAIN config.shocks
     /\ "exchange_rate_regime" \in DOMAIN config.shocks[t]

\* C14: when a step of period t raises, the exception leaves run(): the
\* state, the history and the result list stay as they were, no later step
\* of the period and no later period runs, nothing is retried and run()
\* never returns a series; a solve whose fsolve raises is the one exception
\* that is caught, and the period goes on with the derivation.
C14_ExceptionAbortsRun ==
  [][ /\ StepRaises =>
           /\ pc' = "aborted"
           /\ t' = t
           /\ Objects' = Objects
           /\ history' = history
           /\ results' = results
      /\ pc = "aborted" => UNCHANGED vars
      /\ (pc = "solve" /\ fsolve_info' = "raised") => pc' = "derive"
    ]_vars

\* the shock step of period 1 has raised after period 0 was recorded
C14_Witness ==
  /\ pc = "aborted"
  /\ t = 1
  /\ Len(history) = 2
  /\ Len(results) = 1


\* --------------------------------------------------------------------- C15
\* what the expenditure components of a recorded row add up to
Expenditure(row) ==
  row.consumption + row.investment + row.government_spending + row.net_exports

\* C15: in every recorded state GDP equals consumption plus investment plus
\* government spending plus net exports, to within the tolerance of 0.1
\* (one whole unit here, the smallest amount the state holds).
C15_ExpenditureIdentity ==
  \A i \in 1..Len(results) :
     Abs(results[i].gdp - Expenditure(results[i])) <= 1


\* --------------------------------------------------------------------- C17
\* the row recorded for period p when every period is recorded
RowOfPeriod(p) == results[p + 1]

\* C17: with a positive shock of at least one point to unemployment_rate in
\* period k, the unemployment recorded for period k+1 is higher than the
\* one recorded for period k-1, and the inflation recorded for period k+1
\* is strictly lower than the one recorded for period k-1.
C17_PhillipsDirection ==
  \A k \in DOMAIN config.shocks :
     ( /\ k >= 1
       /\ "unemployment_rate" \in DOMAIN config.shocks[k]
       /\ config.shocks[k].unemployment_rate >= 10
       /\ Len(results) >= k + 2 )
       => /\ RowOfPeriod(k + 1).unemployment_rate
               > RowOfPeriod(k - 1).unemployment_rate
          /\ RowOfPeriod(k + 1).inflation_rate
               < RowOfPeriod(k - 1).inflation_rate


\* --------------------------------------------------------------------- C18
Entries(list) == { list[i] : i \in 1..Len(list) }

\* C18: after run() of an enhanced simulation built with the caller's list,
\* that list holds entries titled 'Starting equilibrium calculation',
\* 'IS-LM-BP Equations' and 'After state update', written by the solve and
\* derive steps of the periods that ran.
C18_CallerListFilled ==
  (pc = "done" /\ simulation_class = "EnhancedCBDCSimulation")
    => /\ logs # << >>
       /\ { "Starting equilibrium calculation", "IS-LM-BP Equations",
            "After state update" } \subseteq Entries(logs)


\* --------------------------------------------------------------------- C19
\* series is extended at its end only: what it held stays as it was
AppendOnly(before, now) ==
  /\ Len(now) >= Len(before)
  /\ \A i \in 1..Len(before) : now[i] = before[i]

\* the entries a step has added to a series
Added(before, now) == { now[i] : i \in (Len(before) + 1)..Len(now) }

\* C19: a snapshot is a copy of the live state taken when it is recorded:
\* every step leaves the entries already in the history and in the output
\* series as they were, whatever it does to the live state, adds entries
\* at the end only, and an added entry holds the values the live state has
\* at that moment.
C19_SnapshotsAreCopies ==
  [][ /\ AppendOnly(history, history')
      /\ AppendOnly(results, results')
      /\ Added(history, history') \cup Added(results, results')
           \subseteq { as_dict(current_state, additional_variables) }
    ]_vars

\* the run is over and the snapshot of period 0 no longer matches the live
\* state, which later periods have changed
C19_Witness ==
  /\ pc = "done"
  /\ Len(history) = 4
  /\ Len(results) = 3
  /\ history[2].gdp # current_state.gdp
  /\ results[1] = history[2]


\* --------------------------------------------------------------------- C20
\* equity over total assets, below the requirement (ratios in thousandths)
BelowRequirement(w, bp) ==
  w.av["bank_equity"] * 1000 < bp.capital_requirement * total_assets(w)

\* C20: whenever equity over total assets is below capital_requirement when
\* the regulations are applied, loans and securities are reduced (80% and
\* 20% of the computed reduction) and afterwards equity over loans plus
\* reserves plus securities plus other assets is at least
\* capital_requirement, here to within one thousandth of rounding.
C20_ComplianceRestored ==
  (pc = "banking" /\ ~ banking_raises(Live)) =>
    LET before == update_balance_sheets(Live, banking_params, cbdc_params)
        now == apply_regulations(before, banking_params)
    IN BelowRequirement(before, banking_params) =>
         /\ total_assets(now) < total_assets(before)
         /\ (now.av["bank_equity"] * 1000) \div total_assets(now) + 1
              >= banking_params.capital_requirement


\* --------------------------------------------------------------------- C21
\* the banking sector as the disintermediation step finds it
BeforeCBDCEffects ==
  calculate_stability_indicators(
    central_bank_operations(
      apply_regulations(
        update_balance_sheets(Live, banking_params, cbdc_params),
        banking_params),
      banking_params, cbdc_params))

\* C21: the disintermediation step of the banking update moves
\* bank_deposits x (cbdc_rate - deposit_rate) x cbdc_disintermediation_factor
\* from bank_deposits to cbdc_supply exactly when cbdc_rate exceeds the
\* deposit rate, their sum staying as it was; otherwise both stay as they
\* were and the recorded cbdc_disintermediation is 0.
C21_DepositsShiftToCBDC ==
  (pc = "banking" /\ ~ banking_raises(Live)) =>
    LET before == BeforeCBDCEffects
        now == banking_update(Live, banking_params, cbdc_params)
        differential ==
          cbdc_params.cbdc_interest_rate - before.st.deposit_interest_rate
        amount ==
          Scale(before.st.bank_deposits,
                (differential * banking_params.cbdc_disintermediation_factor)
                  \div 10)
    IN /\ now.st.bank_deposits + now.st.cbdc_supply
            = before.st.bank_deposits + before.st.cbdc_supply
       /\ differential > 0 =>
            /\ now.st.bank_deposits = before.st.bank_deposits - amount
            /\ now.st.cbdc_supply = before.st.cbdc_supply + amount
            /\ now.av["cbdc_disintermediation"] = amount
       /\ differential <= 0 =>
            /\ now.st.bank_deposits = before.st.bank_deposits
            /\ now.st.cbdc_supply = before.st.cbdc_supply
            /\ now.av["cbdc_disintermediation"] = 0

\* the banking update of a later period has shifted deposits into CBDC
C21_Witness ==
  /\ pc = "trade"
  /\ t >= 1
  /\ additional_variables["cbdc_disintermediation"] > 0
  /\ current_state.cbdc_supply > 0
  /\ cbdc_params.cbdc_interest_rate > 0


\* --------------------------------------------------------------------- C22
\* the boost the lending rule gives for the live state, in thousandths
LendingBoost ==
  IF current_state.unemployment_rate > macro_params.natural_unemployment
    THEN (current_state.unemployment_rate - macro_params.natural_unemployment)
           * cbdc_params.smart_contract_based_lending
    ELSE 0

\* C22: after every CBDC update the recorded smart_contract_lending is
\* (unemployment - natural rate) x smart_contract_based_lending x 10 when
\* unemployment exceeds the natural rate and zero otherwise, also in the
\* periods after a policy change has set the lending parameter to zero.
C22_LendingBoostRecorded ==
  (pc = "banking" /\ "smart_contract_lending" \in DOMAIN additional_variables)
    => additional_variables["smart_contract_lending"] = LendingBoost


\* --------------------------------------------------------------------- C23
\* the money_velocity the CBDC update records for a validity, per mille
VelocityFor(validity) ==
  apply_validity_periods(
    Live, [cbdc_params EXCEPT !.programmable_money_validity = validity]
  ).av["money_velocity"]

\* 1 + 0.1 x (365 / 30 - 1), per mille
HighestVelocity == 1000 + ((365 * 1000) \div 30 - 1000) \div 10

\* C23: the CBDC update records money_velocity = 1 + 0.1 x (365 /
\* max(30, validity) - 1) for a validity below 365 days and 1.0 otherwise;
\* for every validity, zero and negative ones included, the value lies
\* between 1 and 1 + 0.1 x (365/30 - 1), and a longer validity never gives
\* a higher velocity.
C23_VelocityBoundedAndDecreasing ==
  (pc = "banking") =>
    LET validity == cbdc_params.programmable_money_validity
        floored == IF validity > 30 THEN validity ELSE 30
        recorded == additional_variables["money_velocity"]
    IN /\ recorded = VelocityFor(validity)
       /\ validity < 365 =>
            recorded = 1000 + ((365 * 1000) \div floored - 1000) \div 10
       /\ validity >= 365 => recorded = 1000
       /\ recorded >= 1000 /\ recorded <= HighestVelocity
       /\ \A longer \in ValidityDays :
            longer >= validity => VelocityFor(longer) <= recorded

\* a CBDC update has recorded the highest velocity for a validity of zero
C23_Witness ==
  /\ pc = "banking"
  /\ cbdc_params.programmable_money_validity = 0
  /\ additional_variables["money_velocity"] = HighestVelocity
  /\ t = 1


\* --------------------------------------------------------------------- C24
\* C24: under the fixed regime every trade update sets exchange_rate to
\* exchange_rate_target and lowers foreign_reserves by 1000 x the distance
\* between the rate before the update and the target (the distance itself,
\* rates being in thousandths), so by nothing when the rate was already at
\* the target.
C24_FixedRegimePegs ==
  [][ (pc = "trade" /\ trade_params.exchange_rate_regime = "fixed") =>
        /\ current_state'.exchange_rate = trade_params.exchange_rate_target
        /\ current_state'.foreign_reserves
             = current_state.foreign_reserves
                 - Abs(current_state.exchange_rate
                         - trade_params.exchange_rate_target)
        /\ current_state.exchange_rate = trade_params.exchange_rate_target
             => current_state'.foreign_reserves
                  = current_state.foreign_reserves
    ]_vars

\* the trade update of period 1 has put the rate back on the target after
\* the solve of period 0 had moved it, and reserves have paid for the gap
C24_Witness ==
  /\ trade_params.exchange_rate_regime = "fixed"
  /\ pc = "shocks"
  /\ t = 1
  /\ current_state.exchange_rate = trade_params.exchange_rate_target
  /\ current_state.foreign_reserves < -50

\* --------------------------------------------------------------------- C25
\* the state the exchange-rate step of the trade update works on
BeforeExchangeRateStep ==
  apply_tariffs(
    update_trade_flows([ st |-> current_state, av |-> additional_variables,
                         net |-> trade_network ], trade_params),
    trade_params).st

\* C25: under the managed regime the exchange rate after a trade update
\* lies within threshold of the target; foreign_reserves goes down, by 500 x
\* the distance between the market-implied rate and the edge of the band,
\* exactly when the market-implied rate is outside the band, and stays as
\* it is otherwise, the rate then being the market-implied one.
C25_ManagedRegimeBand ==
  [][ (pc = "trade" /\ trade_params.exchange_rate_regime = "managed") =>
        LET target == trade_params.exchange_rate_target
            threshold == trade_params.intervention_threshold
            market == market_rate(BeforeExchangeRateStep)
            edge == IF market > target THEN target + threshold
                    ELSE target - threshold
            outside == market > target + threshold
                         \/ market < target - threshold
        IN /\ current_state'.exchange_rate >= target - threshold
           /\ current_state'.exchange_rate <= target + threshold
           /\ outside =>
                /\ current_state'.exchange_rate = edge
                /\ current_state'.foreign_reserves
                     = current_state.foreign_reserves
                         - Abs(market - edge) \div 2
           /\ ~ outside =>
                /\ current_state'.exchange_rate = market
                /\ current_state'.foreign_reserves
                     = current_state.foreign_reserves
    ]_vars

\* a trade update under the managed regime has intervened at the edge of
\* the band and drawn reserves
C25_Witness ==
  /\ trade_params.exchange_rate_regime = "managed"
  /\ pc = "shocks"
  /\ Abs(current_state.exchange_rate - trade_params.exchange_rate_target)
       = trade_params.intervention_threshold
  /\ current_state.foreign_reserves < 0


AppliedPolicyKeys ==
  { k \in DOMAIN config.policy_changes : k >= 0 /\ k < config.time_horizon }

\* C27: the simulation works on the configuration's own state and parameter
\* objects, so after run() they hold what the run left in them: a second
\* simulation built from the same object starts from the values of the
\* first run's final period (its
\* first history entry is the first run's last row) and from the parameters
\* as the schedule left them, not from the values first configured.
C27_ConfigurationIsLive ==
  /\ (simulation_no = 2 /\ pc = "construct") =>
       /\ as_dict(ConfigObject.initial_state, ConfigObject.additional_variables)
            = previous_results[Len(previous_results)]
       /\ ConfigObject.initial_state # config.initial_state
       /\ \A k \in AppliedPolicyKeys :
            ConfigObject.trade_parameters.tariff_rate
              = config.policy_changes[k].tariff_rate
  /\ (simulation_no = 2 /\ pc = "cbdc" /\ t = 0) =>
       history[1] = previous_results[Len(previous_results)]

\* the second simulation has been built from the configuration the first
\* one ran on for two periods, a tariff change among them
C27_Witness ==
  /\ simulation_no = 2
  /\ pc = "cbdc"
  /\ t = 0
  /\ Len(previous_results) = 2
  /\ AppliedPolicyKeys # {}
  /\ trade_params.tariff_rate # config.trade_parameters.tariff_rate
  /\ history[1].gdp # config.initial_state.gdp


\* --------------------------------------------------------------------- C28
\* the exchange rates a solve that did not raise may return
SolverExchangeRates ==
  { outcome.x[3] : outcome \in { o \in FsolveOutcomes : ~ o.raised } }

LastOf(series) == series[Len(series)]

\* C28: the exchange rate the regime rule sets in the trade update of period
\* t only enters the solve of that period: when the solve does not fall
\* back it replaces the rate with the solver's value, under every regime,
\* the fixed one included; only when it falls back does the regime's rate
\* stand; and the rate after the solve is the one recorded for the period.
C28_SolverRateRecorded ==
  [][ /\ (pc = "solve" /\ trade_params.exchange_rate_regime = "fixed") =>
           current_state.exchange_rate = trade_params.exchange_rate_target
      /\ pc = "solve" =>
           IF fsolve_info' = "raised"
             THEN current_state'.exchange_rate = current_state.exchange_rate
             ELSE current_state'.exchange_rate \in SolverExchangeRates
      /\ pc \in {"derive", "save_state"} =>
           current_state'.exchange_rate = current_state.exchange_rate
      /\ pc = "store" =>
           /\ LastOf(results').exchange_rate = current_state.exchange_rate
           /\ LastOf(history).exchange_rate = current_state.exchange_rate
    ]_vars

\* under the fixed regime the row of period 0 holds a solver's rate off the
\* target, and the row of period 1, whose solve fell back, the target
C28_Witness ==
  /\ pc = "done"
  /\ trade_params.exchange_rate_regime = "fixed"
  /\ Len(results) = 2
  /\ results[1].exchange_rate \in SolverExchangeRates
  /\ results[1].exchange_rate # trade_params.exchange_rate_target
  /\ results[2].exchange_rate = trade_params.exchange_rate_target
  /\ fsolve_info = "raised"


\* --------------------------------------------------------------------- C29
\* the CBDC updates that have run so far
CBDCUpdatesDone == IF pc \in {"construct", "cbdc"} THEN t ELSE
                   IF pc = "done" THEN t ELSE t + 1

\* C29: every CBDC update adds automatic_fiscal_transfers to
\* government_spending and nothing takes it out again: with a constant
\* transfer T and no shock to government_spending, government_spending is
\* its initial value plus k x T after k updates, the row recorded for
\* period p holds the initial value plus (p + 1) x T, and the recorded
\* fiscal_transfers is T.
C29_TransfersAccumulate ==
  LET T == config.cbdc_parameters.automatic_fiscal_transfers
      initial == config.initial_state.government_spending
  IN /\ current_state.government_spending = initial + CBDCUpdatesDone * T
     /\ \A i \in 1..Len(results) :
          /\ results[i].government_spending = initial + i * T
          /\ results[i].fiscal_transfers = T

\* three periods with a transfer of 200 each have been recorded
C29_Witness ==
  /\ pc = "done"
  /\ config.cbdc_parameters.automatic_fiscal_transfers = 200
  /\ Len(results) = 3
  /\ results[3].government_spending
       = config.initial_state.government_spending + 600


\* ------------------------------------------------- sensitivity analysis
\* EconomicState(): every field at its dataclass default
NewEconomicState ==
  [ f \in DOMAIN DefaultState |->
      IF f \in {"exchange_rate", "price_level"} THEN 1000 ELSE 0 ]

\* MacroParameters()
NewMacroParameters ==
  [ autonomous_consumption |-> 1500, marginal_propensity_to_consume |-> 600,
    autonomous_investment |-> 2000, investment_interest_sensitivity |-> 100,
    phillips_curve_sensitivity |-> 500, okun_law_coefficient |-> 500,
    taylor_rule_inflation |-> 1500, taylor_rule_output |-> 500,
    natural_unemployment |-> 40, potential_output_growth |-> 25,
    neutral_interest_rate |-> 25, adaptive_expectations_weight |-> 700 ]

\* CBDCParameters(); tier1 stands for the tiered_interest_rates mapping,
\* empty in a new object
NewCBDCParameters ==
  [ cbdc_interest_rate |-> 0, tier1 |-> 0,
    programmable_money_validity |-> 365,
    conditional_spending_constraints |-> 0,
    automatic_fiscal_transfers |-> 0, smart_contract_based_lending |-> 0,
    emergency_override_mechanisms |-> 0,
    inflation_indexed_instruments |-> 0,
    programmable_asset_purchases |-> 0 ]

\* TradeParameters()
NewTradeParameters ==
  [ tariff_rate |-> 0, exchange_rate_regime |-> "floating",
    exchange_rate_target |-> 1000, intervention_threshold |-> 100,
    capital_flow_controls |-> 0, cbdc_trade_settlement |-> 0,
    cross_border_cbdc_limits |-> 0 ]

\* BankingParameters()
NewBankingParameters ==
  [ capital_requirement |-> 80, reserve_requirement |-> 20,
    liquidity_coverage_ratio |-> 1000, lending_risk_appetite |-> 500,
    quantitative_easing |-> 0, cbdc_disintermediation_factor |-> 0,
    bank_cbdc_distribution_role |-> 1000 ]

\* SimulationConfig(time_horizon=..., start_date=..., random_seed=...):
\* every other field at its dataclass default
NewSimulationConfig(time_horizon, start_date, random_seed) ==
  [ time_horizon |-> time_horizon, start_date |-> start_date,
    random_seed |-> random_seed, save_frequency |-> 1,
    initial_state |-> NewEconomicState,
    additional_variables |-> << >>,
    macro_parameters |-> NewMacroParameters,
    cbdc_parameters |-> NewCBDCParameters,
    trade_parameters |-> NewTradeParameters,
    banking_parameters |-> NewBankingParameters,
    shocks |-> << >>, policy_changes |-> << >> ]

\* for key, val in values.items(): if hasattr(object, key): setattr(...)
copy_attributes(object, values) ==
  [ f \in DOMAIN object |->
      IF f \in DOMAIN values THEN values[f] ELSE object[f] ]

\* a whole-object copy of the base configuration with the name set where
\* it is found first
create_config_with_parameter_whole_copy(base_config, parameter_name, value) ==
  LET found(field) == parameter_name \in DOMAIN base_config[field]
      set(field) == [base_config EXCEPT ![field][parameter_name] = value]
  IN IF found("initial_state") THEN
       [ raised |-> "none", base_config |-> base_config,
         config |-> set("initial_state") ]
     ELSE IF found("macro_parameters") THEN
       [ raised |-> "none", base_config |-> base_config,
         config |-> set("macro_parameters") ]
     ELSE IF found("cbdc_parameters") THEN
       [ raised |-> "none", base_config |-> base_config,
         config |-> set("cbdc_parameters") ]
     ELSE IF found("trade_parameters") THEN
       [ raised |-> "none", base_config |-> base_config,
         config |-> set("trade_parameters") ]
     ELSE IF found("banking_parameters") THEN
       [ raised |-> "none", base_config |-> base_config,
         config |-> set("banking_parameters") ]
     ELSE
       [ raised |-> "ValueError", base_config |-> base_config,
         config |-> base_config ]

\* ScenarioTester._create_config_with_parameter: the configuration it
\* returns or the exception it raises, and the base configuration as the
\* call leaves it.  Every assignment of the method goes to the new
\* configuration or to one of the objects made for it.
create_config_with_parameter(base_config, parameter_name, value) ==
  LET new == NewSimulationConfig(base_config.time_horizon,
                                 base_config.start_date,
                                 base_config.random_seed)
      state_dict == as_dict(base_config.initial_state,
                            base_config.additional_variables)
      state == copy_attributes(NewEconomicState, state_dict)
      macro_parameters ==
        copy_attributes(NewMacroParameters, base_config.macro_parameters)
      cbdc_parameters ==
        copy_attributes(NewCBDCParameters, base_config.cbdc_parameters)
      trade_parameters ==
        copy_attributes(NewTradeParameters, base_config.trade_parameters)
      banking_parameters ==
        copy_attributes(NewBankingParameters,
                        base_config.banking_parameters)
      copied == [new EXCEPT !.initial_state = state,
                            !.macro_parameters = macro_parameters,
                            !.cbdc_parameters = cbdc_parameters,
                            !.trade_parameters = trade_parameters,
                            !.banking_parameters = banking_parameters]
      returned(made) ==
        [ raised |-> "none", base_config |-> base_config,
          config |-> made ]
  IN IF parameter_name \in DOMAIN state_dict
          /\ parameter_name \in DOMAIN state THEN
       returned([copied EXCEPT !.initial_state[parameter_name] = value])
     ELSE IF parameter_name \in DOMAIN macro_parameters THEN
       returned([copied EXCEPT !.macro_parameters[parameter_name] = value])
     ELSE IF parameter_name \in DOMAIN cbdc_parameters THEN
       returned([copied EXCEPT !.cbdc_parameters[parameter_name] = value])
     ELSE IF parameter_name \in DOMAIN trade_parameters THEN
       returned([copied EXCEPT !.trade_parameters[parameter_name] = value])
     ELSE IF parameter_name \in DOMAIN banking_parameters THEN
       returned([copied EXCEPT
                   !.banking_parameters[parameter_name] = value])
     ELSE
       [ raised |-> "ValueError", base_config |-> base_config,
         config |-> base_config ]

\* The names a sensitivity analysis varies: a field of the state and of
\* each parameter set, an extension entry the sector updates write, and a
\* name nothing carries.
ParameterNames ==
  { "government_spending", "natural_unemployment", "cbdc_interest_rate",
    "tariff_rate", "capital_requirement", "money_velocity",
    "discount_factor" }

\* parameter_values
ParameterValues == { 0, 20 }

\* The base configuration of a scenario tester: the default configuration
\* with a horizon, a start date, a seed and a save frequency that are not
\* the dataclass defaults, a shock and a policy change.
ConfigsSensitivity ==
  { [ time_horizon |-> h, start_date |-> "2030-07-01",
      save_frequency |-> 2, random_seed |-> 7,
      initial_state |-> DefaultState,
      additional_variables |-> << >>,
      macro_parameters |-> DefaultMacro,
      cbdc_parameters |-> DefaultCBDC,
      trade_parameters |-> DefaultTrade,
      banking_parameters |-> DefaultBanking,
      shocks |-> (0 :> [government_spending |-> 100]),
      policy_changes |-> (k :> [tariff_rate |-> 150]) ] :
    h \in {1, 2}, k \in ScheduleKeys }

InitSensitivity == InitFrom(ConfigsSensitivity)

\* ScenarioTester.sensitivity_analysis for one value: the configuration is
\* derived from the base configuration, which has been run or not, and
\* run_scenario builds an enhanced simulation with a new list of logs on
\* it; a ValueError leaves the analysis.
SensitivityRun ==
  /\ pc \in {"construct", "done"}
  /\ simulation_no = 1
  /\ \E parameter_name \in ParameterNames, value \in ParameterValues :
       LET call == create_config_with_parameter(ConfigObject,
                                                parameter_name, value)
       IN IF call.raised = "ValueError"
            THEN /\ pc' = propagate("sensitivity_analysis")
                 /\ UNCHANGED << config, current_state,
                                 additional_variables, macro_params,
                                 cbdc_params, trade_params, banking_params,
                                 history, results, trade_network, t,
                                 previous_results, simulation_class, logs,
                                 calculation_logs >>
            ELSE /\ config' = call.config
                 /\ current_state' = call.config.initial_state
                 /\ additional_variables' =
                      call.config.additional_variables
                 /\ macro_params' = call.config.macro_parameters
                 /\ cbdc_params' = call.config.cbdc_parameters
                 /\ trade_params' = call.config.trade_parameters
                 /\ banking_params' = call.config.banking_parameters
                 /\ previous_results' = results
                 /\ simulation_class' = "EnhancedCBDCSimulation"
                 /\ logs' = << >>
                 /\ calculation_logs' = adopt_logs(<< >>)
                 /\ history' = <<>>
                 /\ results' = <<>>
                 /\ trade_network' = EmptyNetwork
                 /\ t' = 0
                 /\ pc' = "construct"
  /\ simulation_no' = 2
  /\ UNCHANGED << generator, fsolve_info, fsolve_log >>

NextSensitivity == Next \/ SensitivityRun

SpecSensitivity == InitSensitivity /\ [][NextSensitivity]_vars

\* --------------------------------------------------------------------- C30
\* the names of the fixed fields of the state and of the parameter sets
SchemaNames ==
  DOMAIN DefaultState \cup DOMAIN DefaultMacro \cup DOMAIN DefaultCBDC
    \cup DOMAIN DefaultTrade \cup DOMAIN DefaultBanking

\* the fields of one object of the new configuration: the named one holds
\* the value, every other one the base object's value
FieldsCarried(new, base, name, value) ==
  /\ DOMAIN new = DOMAIN base
  /\ \A f \in DOMAIN base :
       new[f] = IF f = name THEN value ELSE base[f]

====
